---- MODULE Spec2Model ----
(***************************************************************************)
(* Model of the msn-model package: a medium spiny neurone (MSN) cell, its  *)
(* construction and channel densities (msnmodel/cell.py, params.py), its   *)
(* background synaptic noise (msnmodel/cell.py and the legacy msn/cell.py) *)
(* and its dopaminergic and cholinergic modulation                         *)
(* (msnmodel/modulation.py).                                               *)
(*                                                                         *)
(* Modulation factors are held as integers in units of 1/1000, connection  *)
(* weights in units of 1e-4 uS, channel densities in units of 1e-4 of the  *)
(* peak conductance's unit.                                                *)
(***************************************************************************)
EXTENDS Integers, Sequences, FiniteSets, TLC

VARIABLES
    cellType,   \* MSN.type
    mech,       \* fields of every density mechanism of every segment
    syns,       \* every synapse created so far (point process + NetStim + NetCon)
    bg_noise,   \* MSN._bg_noise: indices into syns, in the order appended
    da,         \* the Dopamine object
    ach,        \* the Acetylcholine object
    lastOp,     \* the call that produced the current state
    nAdds,      \* number of add_bg_noise calls made
    package,    \* the package the cell class comes from: msnmodel or msn (legacy)
    build,      \* the MSN constructor: its arguments, its data and how far it has run
    probe       \* the last call of a density or parameter function and its result

vars == <<cellType, mech, syns, bg_noise, da, ach, lastOp, nAdds, package, build, probe>>

-----------------------------------------------------------------------------
(* Bounds *)

NDend == 1        \* dendritic sections of the morphology
MaxAdds == 2      \* add_bg_noise calls in one run
DrawPoints == 2   \* sample points taken from each uniform range

-----------------------------------------------------------------------------
(* Morphology, discretisation and inserted mechanisms *)

soma == <<"soma", 0>>

axon == << <<"axon", 0>> >>

dend == [i \in 1..NDend |-> <<"dend", i - 1>>]

all == <<soma>> \o axon \o dend

Range(s) == {s[i] : i \in DOMAIN s}

SecName(sec) == sec[1]

\* section length in um
SecL(sec) == IF SecName(sec) = "soma" THEN 12 ELSE IF SecName(sec) = "axon" THEN 70 ELSE 30

\* the discretisation with round(sec.L/40) in place of int(sec.L/40)
nseg_of_rounded(name, L10) == IF name = "axon" THEN 2 ELSE 2 * ((L10 + 200) \div 400) + 1

\* cell.py 281-285: the nseg of a section of the given name and length
\* (L10 = 10 * sec.L, which is positive); int() truncates
nseg_of(name, L10) == IF name = "axon" THEN 2 ELSE 2 * (L10 \div 400) + 1

nseg(sec) == nseg_of(SecName(sec), 10 * SecL(sec))

dendritic_channels == {"naf", "kaf", "kas", "kir", "sk", "can", "cav32", "cav33", "kdr", "cal12", "cal13", "car", "bk", "cadyn", "caldyn"}

somatic_channels == {"naf", "kaf", "kas", "kdr", "bk", "cal12", "cal13", "car", "can", "sk", "kir", "cadyn", "caldyn"}

axonal_channels == {"naf", "kas", "km"}

Mechanisms(sec) ==
    (IF SecName(sec) = "soma" THEN somatic_channels
     ELSE IF SecName(sec) = "axon" THEN axonal_channels
     ELSE dendritic_channels) \cup {"pas"}

Segments(sec) == {<<sec, k>> : k \in 0..(nseg(sec) - 1)}

AllSegments == UNION {Segments(sec) : sec \in Range(all)}

\* a mechanism instance: <<segment, mechanism name>>
MechInsts == UNION {{<<sg, n>> : n \in Mechanisms(sg[1])} : sg \in AllSegments}

\* the segment of section sec that holds position x (x10 = 10 * x)
SegmentAt(sec, x10) == <<sec, (x10 * nseg(sec)) \div 10>>

\* parameter values of a mechanism or synapse no modulator has written
Unmodulated == [damod |-> 0, maxMod |-> 1000, level |-> 0, max2 |-> 1000, lev2 |-> 0, modShift |-> 0, p_level |-> {}, p_lev2 |-> {}, p_modShift |-> {}]

-----------------------------------------------------------------------------
(* Optional arguments: <<>> is None, <<v>> the number v *)

None == <<>>

\* a keyword argument left out of the call
Omitted == "omitted"

Truthy(x) == x # None /\ x[1] # 0

-----------------------------------------------------------------------------
(* The record kept in lastOp: the call, whether it raised, its argument and
   whether it repeats the call made just before it *)

Call(op, failed, arg) ==
    [op |-> op, failed |-> failed, arg |-> arg,
     again |-> lastOp.op = op /\ lastOp.arg = arg /\ lastOp.failed = failed]

-----------------------------------------------------------------------------
(* Background noise *)

\* synaptic_input whose synapse starts with modulation switched on
synaptic_input_modulated(section, stype, x10, start, weight) ==
    [seg |-> SegmentAt(section, x10), x10 |-> x10, stype |-> stype, start |-> start,
     weight |-> weight, scale_factor |-> None, live |-> TRUE,
     born |-> 0, mod |-> [Unmodulated EXCEPT !.damod = 1, !.level = 1, !.lev2 = 1]]

synaptic_input(section, stype, x10, start, weight) ==
    [seg |-> SegmentAt(section, x10), x10 |-> x10, stype |-> stype, start |-> start,
     weight |-> weight, scale_factor |-> None, live |-> TRUE,
     born |-> 0, mod |-> Unmodulated]

\* remove_bg_noise on the pair <<syns, bg_noise>>; held tells whether the
\* caller still references the objects (otherwise they are freed when the
\* list is dropped)
\* remove_bg_noise that only forgets the tracked entries
RemovedNoise_forget(ss, bg, held) == [syns |-> ss, bg_noise |-> <<>>]

RemovedNoise(ss, bg, held) ==
    IF Len(bg) > 0
    THEN [syns |-> [i \in DOMAIN ss |->
                      IF i \in Range(bg)
                      THEN IF held THEN [ss[i] EXCEPT !.weight = 0]
                           ELSE [synaptic_input(ss[i].seg[1], ss[i].stype, ss[i].x10, 0, 0) EXCEPT !.live = FALSE, !.born = ss[i].born]
                      ELSE ss[i]],
          bg_noise |-> <<>>]
    ELSE [syns |-> ss, bg_noise |-> bg]

remove_bg_noise(held) ==
    LET r == RemovedNoise(syns, bg_noise, held) IN
    /\ syns' = r.syns
    /\ bg_noise' = r.bg_noise
    /\ lastOp' = Call("remove_bg_noise", FALSE, <<>>)
    /\ UNCHANGED <<package, build, probe, cellType, mech, da, ach, nAdds>>

gbase == IF cellType = "dmsn" THEN 3 ELSE 2

\* the legacy glutamate synapse (AMPA and NMDA in one point process) made by
\* random_synapse, with the two scale factors add_bg_noise sets on it
random_synapse(sec, delay, ampa_scale_factor, nmda_scale_factor) ==
    [synaptic_input(sec, "glut", 5, delay, gbase) EXCEPT
        !.scale_factor = << IF Truthy(ampa_scale_factor) THEN ampa_scale_factor ELSE None,
                            IF Truthy(nmda_scale_factor) THEN nmda_scale_factor ELSE None >>]

\* entries add_bg_noise appends to the tracked list for one section
PerSection == IF package = "msnmodel" THEN 3 ELSE 2

\* the three synapses of msnmodel with the GABA synapse appended first
NoiseOn_gaba_first(sec, delay, ampa_scale_factor, nmda_scale_factor, gaba_scale_factor) ==
    << synaptic_input(sec, "gaba", 1, delay, gbase * 5),
       synaptic_input(sec, "ampa", 5, delay, gbase),
       synaptic_input(sec, "nmda", 5, delay, gbase) >>

\* the synapses add_bg_noise creates on one section, in the order appended
NoiseOn(sec, delay, ampa_scale_factor, nmda_scale_factor, gaba_scale_factor) ==
    LET a == synaptic_input(sec, "ampa", 5, delay, gbase)
        n == synaptic_input(sec, "nmda", 5, delay, gbase)
        conductance == IF Truthy(gaba_scale_factor)
                       THEN gbase * 3 * gaba_scale_factor[1]
                       ELSE gbase * 5
        g == synaptic_input(sec, "gaba", 1, delay, conductance)
    IN IF package = "msnmodel"
       THEN << IF Truthy(ampa_scale_factor) THEN [a EXCEPT !.scale_factor = ampa_scale_factor] ELSE a,
               IF Truthy(nmda_scale_factor) THEN [n EXCEPT !.scale_factor = nmda_scale_factor] ELSE n,
               g >>
       ELSE << random_synapse(sec, delay, ampa_scale_factor, nmda_scale_factor), g >>

RECURSIVE NoiseLoop(_, _, _, _, _, _)
\* the synapses created for sections[indx..]; stops at the first section
\* for which delays[indx] does not exist
NoiseLoop(sections, indx, delays, asf, nsf, gsf) ==
    IF indx > Len(sections) THEN <<>>
    ELSE IF Len(delays) # 0 /\ indx > Len(delays) THEN <<>>
    ELSE NoiseOn(sections[indx], IF Len(delays) = 0 THEN 0 ELSE delays[indx], asf, nsf, gsf)
         \o NoiseLoop(sections, indx + 1, delays, asf, nsf, gsf)

\* add_bg_noise without the removal of the previous noise
add_bg_noise_keep(dend_only, ampa_scale_factor, nmda_scale_factor, gaba_scale_factor, delays, held) ==
    LET sections == IF dend_only THEN SelectSeq(all, LAMBDA sec : SecName(sec) = "dend") ELSE all
        made == NoiseLoop(sections, 1, delays, ampa_scale_factor, nmda_scale_factor, gaba_scale_factor)
        new == [i \in DOMAIN made |-> [made[i] EXCEPT !.born = nAdds + 1]]
    IN
    /\ nAdds < MaxAdds
    /\ nAdds' = nAdds + 1
    /\ syns' = syns \o new
    /\ bg_noise' = bg_noise \o [i \in 1..Len(new) |-> Len(syns) + i]
    /\ lastOp' = Call("add_bg_noise", Len(new) < PerSection * Len(sections), <<dend_only, gaba_scale_factor>>)
    /\ UNCHANGED <<package, build, probe, cellType, mech, da, ach>>

add_bg_noise(dend_only, ampa_scale_factor, nmda_scale_factor, gaba_scale_factor, delays, held) ==
    LET sections == IF dend_only THEN SelectSeq(all, LAMBDA sec : SecName(sec) = "dend") ELSE all
        r == RemovedNoise(syns, bg_noise, held)
        made == NoiseLoop(sections, 1, delays, ampa_scale_factor, nmda_scale_factor, gaba_scale_factor)
        \* born: the add_bg_noise call that created the synapse
        new == [i \in DOMAIN made |-> [made[i] EXCEPT !.born = nAdds + 1]]
    IN
    /\ nAdds < MaxAdds
    /\ nAdds' = nAdds + 1
    /\ syns' = r.syns \o new
    /\ bg_noise' = r.bg_noise \o [i \in 1..Len(new) |-> Len(syns) + i]
    /\ lastOp' = Call("add_bg_noise", Len(new) < PerSection * Len(sections), <<dend_only, gaba_scale_factor>>)
    /\ UNCHANGED <<package, build, probe, cellType, mech, da, ach>>

-----------------------------------------------------------------------------
(* Modulation parameters *)

\* one sample of the half-open range [low, high): point d of DrawPoints
rand_uniform(low, high, d) == low + (d * (high - low)) \div DrawPoints

\* the 'intrinsic' entry of the dict get_modulation_params builds
intrinsic_params(cell_type, neurotransmitter, d) ==
    IF cell_type = "imsn" THEN
        IF neurotransmitter = "DA" THEN
            [naf |-> rand_uniform(950, 1100, d),
             kaf |-> rand_uniform(1000, 1100, d),
             kas |-> rand_uniform(1000, 1100, d),
             kir |-> rand_uniform(800, 1000, d),
             cal12 |-> rand_uniform(700, 800, d),
             cal13 |-> rand_uniform(700, 800, d),
             can |-> rand_uniform(900, 1000, d),
             car |-> rand_uniform(600, 800, d)]
        ELSE
            [naf |-> rand_uniform(1000, 1200, d),
             kir |-> rand_uniform(500, 700, d),
             cal12 |-> rand_uniform(300, 700, d),
             cal13 |-> rand_uniform(300, 700, d),
             can |-> rand_uniform(650, 850, d),
             km |-> rand_uniform(0, 400, d)]
    ELSE
        IF neurotransmitter = "DA" THEN
            [naf |-> rand_uniform(600, 800, d),
             kaf |-> rand_uniform(750, 850, d),
             kas |-> rand_uniform(650, 850, d),
             kir |-> rand_uniform(850, 1250, d),
             cal12 |-> rand_uniform(1000, 2000, d),
             cal13 |-> rand_uniform(1000, 2000, d),
             can |-> rand_uniform(200, 1000, d)]
        ELSE
            [naf |-> rand_uniform(1000, 1200, d),
             kir |-> rand_uniform(800, 1000, d),
             cal12 |-> rand_uniform(300, 700, d),
             cal13 |-> rand_uniform(300, 700, d),
             can |-> rand_uniform(650, 850, d),
             km |-> rand_uniform(0, 400, d)]

\* synaptic_params with the dmsn/ACh factors drawn as for imsn
synaptic_params_drawn(cell_type, neurotransmitter, d) ==
    IF neurotransmitter = "DA" THEN
        IF cell_type = "imsn"
        THEN [NMDA |-> rand_uniform(850, 1050, d),
              AMPA |-> rand_uniform(700, 900, d),
              GABA |-> rand_uniform(900, 1100, d)]
        ELSE [NMDA |-> 1300, AMPA |-> 1200, GABA |-> 800]
    ELSE [NMDA |-> rand_uniform(1000, 1050, d),
          AMPA |-> rand_uniform(990, 1010, d),
          GABA |-> rand_uniform(990, 1010, d)]

\* the 'synaptic' entry of the dict get_modulation_params builds
synaptic_params(cell_type, neurotransmitter, d) ==
    IF cell_type = "imsn" THEN
        IF neurotransmitter = "DA" THEN
            [NMDA |-> rand_uniform(850, 1050, d),
             AMPA |-> rand_uniform(700, 900, d),
             GABA |-> rand_uniform(900, 1100, d)]
        ELSE
            [NMDA |-> rand_uniform(1000, 1050, d),
             AMPA |-> rand_uniform(990, 1010, d),
             GABA |-> rand_uniform(990, 1010, d)]
    ELSE
        IF neurotransmitter = "DA" THEN
            [NMDA |-> 1300, AMPA |-> 1200, GABA |-> 800]
        ELSE
            [NMDA |-> 1000, AMPA |-> 1000, GABA |-> 1000]

get_modulation_params(cell_type, neurotransmitter, d) ==
    [intrinsic |-> intrinsic_params(cell_type, neurotransmitter, d),
     synaptic |-> synaptic_params(cell_type, neurotransmitter, d)]

\* ModSections with the axon left in the 'no_axon' scope
ModSections_axon(modulate) == Range(all)

\* the sections a modulator covers
ModSections(modulate) ==
    IF modulate = "all" THEN Range(all) ELSE {soma} \cup Range(dend)

\* Vector.play_remove() of every vector in vecs, as seen by one mechanism
play_remove(m, vecs) ==
    [m EXCEPT !.p_level = @ \ vecs, !.p_lev2 = @ \ vecs, !.p_modShift = @ \ vecs]

-----------------------------------------------------------------------------
(* Dopamine *)

\* DA_modulate_instrinsic that sets level to 1 even when a trajectory drives it
DA_modulate_instrinsic_snap(m, name, self, reset) ==
    IF name \in DOMAIN self.params.intrinsic
    THEN LET m1 == [m EXCEPT !.damod = 1, !.maxMod = self.params.intrinsic[name]] IN
         IF reset THEN [m1 EXCEPT !.level = 0]
         ELSE IF self.play # {} /\ name \in self.play
              THEN [m1 EXCEPT !.p_level = @ \cup {<<"DA", name>>}, !.level = 1]
              ELSE [m1 EXCEPT !.level = 1]
    ELSE m

\* body of the loop of Dopamine._modulate_instrinsic for one mechanism
DA_modulate_instrinsic(m, name, self, reset) ==
    IF name \in DOMAIN self.params.intrinsic
    THEN LET m1 == [m EXCEPT !.damod = 1, !.maxMod = self.params.intrinsic[name]] IN
         IF reset THEN [m1 EXCEPT !.level = 0]
         ELSE IF self.play # {} /\ name \in self.play
              THEN [m1 EXCEPT !.p_level = @ \cup {<<"DA", name>>}]
              ELSE [m1 EXCEPT !.level = 1]
    ELSE m

\* body of the loop of Dopamine._modulate_gaba for one point process
DA_modulate_gaba(m, hname, self, reset) ==
    IF hname = "gaba"
    THEN LET m1 == [m EXCEPT !.damod = 1, !.maxMod = self.params.synaptic.GABA] IN
         IF reset THEN [m1 EXCEPT !.level = 0]
         ELSE IF self.play # {} /\ "gaba" \in self.play
              THEN [m1 EXCEPT !.p_level = @ \cup {<<"DA", "gaba">>}]
              ELSE [m1 EXCEPT !.level = 1]
    ELSE m

\* body of the loop of Dopamine._modulate_glut for one point process
DA_modulate_glut(m, hname, self, reset) ==
    IF hname = "ampa"
    THEN LET m1 == [m EXCEPT !.damod = 1, !.maxMod = self.params.synaptic.AMPA] IN
         IF reset THEN [m1 EXCEPT !.level = 0]
         ELSE IF self.play # {} /\ "glut" \in self.play
              THEN [m1 EXCEPT !.p_level = @ \cup {<<"DA", "glut">>}]
              ELSE [m1 EXCEPT !.level = 1]
    ELSE IF hname = "nmda"
    THEN LET m1 == [m EXCEPT !.damod = 1, !.maxMod = self.params.synaptic.NMDA] IN
         IF reset THEN [m1 EXCEPT !.level = 0]
         ELSE IF self.play # {} /\ "glut" \in self.play
              THEN [m1 EXCEPT !.p_level = @ \cup {<<"DA", "glut">>}]
              ELSE [m1 EXCEPT !.level = 1]
    ELSE m

\* Dopamine.__init__
Dopamine(modulate, intrinsic_modulation, gaba_modulation, glut_modulation, play, d) ==
    LET self == [made |-> TRUE,
                 params |-> get_modulation_params(cellType, "DA", d),
                 play |-> play,
                 sections |-> ModSections(IF modulate = Omitted THEN "no_axon" ELSE modulate),
                 \* the arguments of the call and the number of synapses
                 \* that existed then, kept to state properties
                 seen |-> Len(syns),
                 args |-> [modulate |-> modulate, intrinsic |-> intrinsic_modulation,
                           gaba |-> gaba_modulation, glut |-> glut_modulation,
                           shift_kaf |-> 0]]
    IN
    /\ ~da.made
    /\ da' = self
    /\ mech' = [mi \in MechInsts |->
                  IF mi[1][1] \in self.sections /\ intrinsic_modulation
                  THEN DA_modulate_instrinsic(mech[mi], mi[2], self, FALSE)
                  ELSE mech[mi]]
    /\ syns' = [i \in DOMAIN syns |->
                  IF syns[i].live /\ syns[i].seg[1] \in self.sections
                  THEN LET g == IF gaba_modulation
                                THEN DA_modulate_gaba(syns[i].mod, syns[i].stype, self, FALSE)
                                ELSE syns[i].mod
                       IN [syns[i] EXCEPT !.mod = IF glut_modulation
                                                  THEN DA_modulate_glut(g, syns[i].stype, self, FALSE)
                                                  ELSE g]
                  ELSE syns[i]]
    /\ lastOp' = Call("Dopamine", FALSE, self.args)
    /\ UNCHANGED <<package, build, probe, cellType, bg_noise, ach, nAdds>>

\* Dopamine.reset
DA_reset ==
    LET self == da
        vecs == {<<"DA", k>> : k \in self.play}
    IN
    /\ da.made
    /\ mech' = [mi \in MechInsts |->
                  LET m == play_remove(mech[mi], vecs) IN
                  IF mi[1][1] \in self.sections
                  THEN DA_modulate_instrinsic(m, mi[2], self, TRUE)
                  ELSE m]
    /\ syns' = [i \in DOMAIN syns |->
                  LET m == play_remove(syns[i].mod, vecs) IN
                  IF syns[i].live /\ syns[i].seg[1] \in self.sections
                  THEN [syns[i] EXCEPT !.mod = DA_modulate_gaba(DA_modulate_glut(m, syns[i].stype, self, TRUE),
                                                                syns[i].stype, self, TRUE)]
                  ELSE [syns[i] EXCEPT !.mod = m]]
    /\ lastOp' = Call("Dopamine.reset", FALSE, <<>>)
    /\ UNCHANGED <<package, build, probe, cellType, bg_noise, da, ach, nAdds>>

-----------------------------------------------------------------------------
(* Acetylcholine *)

\* ACh_modulate_intrinsic without the test of the mechanism's name
ACh_modulate_intrinsic_every(m, name, self, reset) ==
    LET m1 == [m EXCEPT !.damod = 1]
        m2 == IF reset THEN [m1 EXCEPT !.damod = 0, !.lev2 = 0] ELSE m1
    IN IF self.play # {} /\ name \in self.play
       THEN [m2 EXCEPT !.p_lev2 = @ \cup {<<"ACh", name>>}]
       ELSE [m2 EXCEPT !.lev2 = 1]

\* body of the loop of Acetylcholine._modulate_intrinsic for one mechanism
ACh_modulate_intrinsic(m, name, self, reset) ==
    IF name \in DOMAIN self.params.intrinsic
    THEN LET m1 == [m EXCEPT !.damod = 1, !.max2 = self.params.intrinsic[name]]
             m2 == IF reset THEN [m1 EXCEPT !.damod = 0, !.lev2 = 0] ELSE m1
         IN IF self.play # {} /\ name \in self.play
            THEN [m2 EXCEPT !.p_lev2 = @ \cup {<<"ACh", name>>}]
            ELSE [m2 EXCEPT !.lev2 = 1]
    ELSE m

\* ACh_shift_kaf without the test of the cell type
ACh_shift_kaf_anytype(m, name, self, by_mV, reset) ==
    IF name = "kaf"
    THEN IF reset THEN [m EXCEPT !.damod = 0, !.modShift = 0]
         ELSE IF self.play # {} /\ "kaf" \in self.play
              THEN [m EXCEPT !.p_modShift = @ \cup {<<"ACh", "kaf">>}]
              ELSE [m EXCEPT !.modShift = by_mV]
    ELSE m

\* body of the loop of Acetylcholine._shift_kaf for one mechanism
ACh_shift_kaf(m, name, self, by_mV, reset) ==
    IF cellType = "dmsn" /\ name = "kaf"
    THEN IF reset THEN [m EXCEPT !.damod = 0, !.modShift = 0]
         ELSE IF self.play # {} /\ "kaf" \in self.play
              THEN [m EXCEPT !.p_modShift = @ \cup {<<"ACh", "kaf">>}]
              ELSE [m EXCEPT !.modShift = by_mV]
    ELSE m

\* ACh_modulate_gaba whose reset steps lev2 down instead of setting it
ACh_modulate_gaba_stepdown(m, hname, self, reset) ==
    IF hname = "gaba"
    THEN LET m1 == [m EXCEPT !.damod = 1, !.max2 = self.params.synaptic.GABA] IN
         IF reset THEN [m1 EXCEPT !.damod = 0, !.lev2 = @ - 1]
         ELSE IF self.play # {} /\ "gaba" \in self.play
              THEN [m1 EXCEPT !.p_lev2 = @ \cup {<<"ACh", "gaba">>}]
              ELSE [m1 EXCEPT !.lev2 = 1]
    ELSE m

\* body of the loop of Acetylcholine._modulate_gaba for one point process
ACh_modulate_gaba(m, hname, self, reset) ==
    IF hname = "gaba"
    THEN LET m1 == [m EXCEPT !.damod = 1, !.max2 = self.params.synaptic.GABA] IN
         IF reset THEN [m1 EXCEPT !.damod = 0, !.lev2 = 0]
         ELSE IF self.play # {} /\ "gaba" \in self.play
              THEN [m1 EXCEPT !.p_lev2 = @ \cup {<<"ACh", "gaba">>}]
              ELSE [m1 EXCEPT !.lev2 = 1]
    ELSE m

\* body of the loop of Acetylcholine._modulate_glut for one point process
ACh_modulate_glut(m, hname, self, reset) ==
    IF hname = "ampa"
    THEN LET m1 == [m EXCEPT !.damod = 1, !.max2 = self.params.synaptic.AMPA] IN
         IF reset THEN [m1 EXCEPT !.damod = 0, !.lev2 = 0]
         ELSE IF self.play # {} /\ "glut" \in self.play
              THEN [m1 EXCEPT !.p_lev2 = @ \cup {<<"ACh", "glut">>}]
              ELSE [m1 EXCEPT !.lev2 = 1]
    ELSE IF hname = "nmda"
    THEN LET m1 == [m EXCEPT !.damod = 1, !.max2 = self.params.synaptic.NMDA] IN
         IF reset THEN [m1 EXCEPT !.damod = 0, !.lev2 = 0]
         ELSE IF self.play # {} /\ "glut" \in self.play
              THEN [m1 EXCEPT !.p_lev2 = @ \cup {<<"ACh", "glut">>}]
              ELSE [m1 EXCEPT !.lev2 = 1]
    ELSE m

\* Acetylcholine.__init__
Acetylcholine(modulate, intrinsic_modulation, gaba_modulation, glut_modulation, shift_kaf, play, d) ==
    LET self == [made |-> TRUE,
                 params |-> get_modulation_params(cellType, "ACh", d),
                 play |-> play,
                 sections |-> ModSections(IF modulate = Omitted THEN "all" ELSE modulate),
                 \* the arguments of the call and the number of synapses
                 \* that existed then, kept to state properties
                 seen |-> Len(syns),
                 args |-> [modulate |-> modulate, intrinsic |-> intrinsic_modulation,
                           gaba |-> gaba_modulation, glut |-> glut_modulation,
                           shift_kaf |-> shift_kaf]]
    IN
    /\ ~ach.made
    /\ ach' = self
    /\ mech' = [mi \in MechInsts |->
                  IF mi[1][1] \in self.sections
                  THEN LET i == IF intrinsic_modulation
                                THEN ACh_modulate_intrinsic(mech[mi], mi[2], self, FALSE)
                                ELSE mech[mi]
                       IN IF shift_kaf # 0
                          THEN ACh_shift_kaf(i, mi[2], self, shift_kaf, FALSE)
                          ELSE i
                  ELSE mech[mi]]
    /\ syns' = [i \in DOMAIN syns |->
                  IF syns[i].live /\ syns[i].seg[1] \in self.sections
                  THEN LET g == IF gaba_modulation
                                THEN ACh_modulate_gaba(syns[i].mod, syns[i].stype, self, FALSE)
                                ELSE syns[i].mod
                       IN [syns[i] EXCEPT !.mod = IF glut_modulation
                                                  THEN ACh_modulate_glut(g, syns[i].stype, self, FALSE)
                                                  ELSE g]
                  ELSE syns[i]]
    /\ lastOp' = Call("Acetylcholine", FALSE, self.args)
    /\ UNCHANGED <<package, build, probe, cellType, bg_noise, da, nAdds>>

\* Acetylcholine.reset with the test of `what` made after the play vectors
\* are removed
ACh_reset_late_check(what) ==
    LET self == ach
        vecs == {<<"ACh", k>> : k \in self.play}
        valid == what \in {"all", "gaba", "glut", "intrinsic"}
    IN
    /\ ach.made
    /\ mech' = [mi \in MechInsts |->
                  LET m == play_remove(mech[mi], vecs) IN
                  IF valid /\ mi[1][1] \in self.sections /\ what \in {"all", "intrinsic"}
                  THEN ACh_shift_kaf(ACh_modulate_intrinsic(m, mi[2], self, TRUE),
                                     mi[2], self, -10, TRUE)
                  ELSE m]
    /\ syns' = [i \in DOMAIN syns |->
                  LET m == play_remove(syns[i].mod, vecs) IN
                  IF valid /\ syns[i].live /\ syns[i].seg[1] \in self.sections
                  THEN LET g == IF what \in {"all", "glut"}
                                THEN ACh_modulate_glut(m, syns[i].stype, self, TRUE)
                                ELSE m
                       IN [syns[i] EXCEPT !.mod = IF what \in {"all", "gaba"}
                                                  THEN ACh_modulate_gaba(g, syns[i].stype, self, TRUE)
                                                  ELSE g]
                  ELSE [syns[i] EXCEPT !.mod = m]]
    /\ lastOp' = Call("Acetylcholine.reset", ~valid, what)
    /\ UNCHANGED <<package, build, probe, cellType, bg_noise, da, ach, nAdds>>

\* Acetylcholine.reset
ACh_reset(what) ==
    LET self == ach
        vecs == {<<"ACh", k>> : k \in self.play}
    IN
    /\ ach.made
    /\ IF what \notin {"all", "gaba", "glut", "intrinsic"}
       THEN /\ lastOp' = Call("Acetylcholine.reset", TRUE, what)
            /\ UNCHANGED <<mech, syns>>
       ELSE /\ mech' = [mi \in MechInsts |->
                          LET m == play_remove(mech[mi], vecs) IN
                          IF mi[1][1] \in self.sections /\ what \in {"all", "intrinsic"}
                          THEN ACh_shift_kaf(ACh_modulate_intrinsic(m, mi[2], self, TRUE),
                                             mi[2], self, -10, TRUE)
                          ELSE m]
            /\ syns' = [i \in DOMAIN syns |->
                          LET m == play_remove(syns[i].mod, vecs) IN
                          IF syns[i].live /\ syns[i].seg[1] \in self.sections
                          THEN LET g == IF what \in {"all", "glut"}
                                        THEN ACh_modulate_glut(m, syns[i].stype, self, TRUE)
                                        ELSE m
                               IN [syns[i] EXCEPT !.mod = IF what \in {"all", "gaba"}
                                                          THEN ACh_modulate_gaba(g, syns[i].stype, self, TRUE)
                                                          ELSE g]
                          ELSE [syns[i] EXCEPT !.mod = m]]
            /\ lastOp' = Call("Acetylcholine.reset", FALSE, what)
    /\ UNCHANGED <<package, build, probe, cellType, bg_noise, da, ach, nAdds>>

-----------------------------------------------------------------------------
(* Channel density (cell.py: uniform_fun, step_fun, get_channel_density).

   Numbers are integers.  A peak conductance gbar is an integer or NaN; a
   density is held in units of 1e-4 of the peak's unit.  In args, p0 and the
   p1 of the four-argument profiles are in tenths (the exponents p0 used
   are whole numbers from -1 up), p2, p3 and distances are in um. *)

\* np.nan
NaN == -999999

\* float product: NaN if either factor is NaN
Times(a, b) == IF a = NaN \/ b = NaN THEN NaN ELSE a * b

RECURSIVE Pow(_, _)
Pow(b, e) == IF e = 0 THEN 1 ELSE b * Pow(b, e - 1)

\* 10**p0 in tenths, for p0 in tenths
Pow10(p0) == Pow(10, p0 \div 10 + 1)

\* 100 / (1 + exp(z)) rounded, for whole z
LogisticPct(z) ==
    IF z <= -6 THEN 100
    ELSE IF z >= 6 THEN 0
    ELSE <<99, 98, 95, 88, 73, 50, 27, 12, 5, 2, 1>>[z + 6]

\* 1 / (1 + np.exp((distance - p2) / p3)) in percent, the quotient taken to
\* the whole number below it; p3 is not 0
Sigmoid(distance, p2, p3) ==
    LogisticPct(IF p3 > 0 THEN (distance - p2) \div p3 ELSE (p2 - distance) \div (0 - p3))

\* a call that returned v, and a call that raised e and returned nothing
Ok(v) == [ok |-> TRUE, value |-> v]

Raise(e) == [ok |-> FALSE, error |-> e]

uniform_fun(distance, args, gbar) ==
    IF Len(args) = 0 THEN Raise("IndexError")
    ELSE Ok(Times(Pow10(args[1]) * 1000, gbar))

\* step_fun with the comparisons made inclusive
step_fun_inclusive(distance, args, gbar) ==
    IF Len(args) # 4 THEN Raise("ValueError")
    ELSE Ok(Times((IF distance >= args[3] /\ distance <= args[4] THEN args[1] ELSE args[2]) * 1000, gbar))

step_fun(distance, args, gbar) ==
    IF Len(args) # 4 THEN Raise("ValueError")
    ELSE Ok(Times((IF distance > args[3] /\ distance < args[4] THEN args[1] ELSE args[2]) * 1000, gbar))

\* a resolver that tests for the legacy name in either package
AxonMCurrent_legacy(pkg) == "Im"

\* the name of the axonal M-current the resolver of a package tests for
AxonMCurrent(pkg) == IF pkg = "msnmodel" THEN "km" ELSE "Im"

\* the axon branch with a uniform fallback like the dendrite branch has
AxonDensity_fallback(pkg, distance, mch, args, gbar) ==
    IF mch = "naf" THEN step_fun(distance, args, gbar)
    ELSE uniform_fun(distance, args, gbar)

\* the axon branch of get_channel_density: an if/elif without else, so for
\* any other mechanism the local density is never bound
AxonDensity(pkg, distance, mch, args, gbar) ==
    IF mch = "kas" \/ mch = AxonMCurrent(pkg) THEN uniform_fun(distance, args, gbar)
    ELSE IF mch = "naf" THEN step_fun(distance, args, gbar)
    ELSE Raise("UnboundLocalError")

\* the density the branches of get_channel_density compute, before the
\* assertion on its sign
ProfileDensity(pkg, distance, params) ==
    LET compartment == params[1]
        mch == params[2]
        args == params[3]
        gbar == params[4]
    IN
    IF compartment = "dend" THEN
        IF mch = "naf" THEN
            IF Len(args) # 4 THEN Raise("ValueError")
            ELSE Ok(Times(gbar, Pow10(args[1]) * (1000 - 100 * args[2] + args[2] * Sigmoid(distance, args[3], args[4]))))
        ELSE IF mch = "kaf" THEN
            IF Len(args) # 4 THEN Raise("ValueError")
            ELSE Ok(Times(gbar, Pow10(args[1]) * (1000 + args[2] * Sigmoid(distance, args[3], args[4]))))
        ELSE IF mch = "kas" THEN
            IF Len(args) # 3 THEN Raise("ValueError")
            ELSE Ok(Times(gbar, Pow10(args[1]) * (100 + 9 * Sigmoid(distance, args[2], args[3]))))
        ELSE IF mch \in {"kir", "sk"} THEN
            IF Len(args) = 0 THEN Raise("IndexError")
            ELSE Ok(Times(gbar, Pow10(args[1]) * 1000))
        ELSE IF mch = "can" THEN
            IF Len(args) # 4 THEN Raise("ValueError")
            ELSE Ok(Pow10(args[1]) * (1000 - 100 * args[2] + args[2] * Sigmoid(distance, args[3], args[4])))
        ELSE IF mch \in {"cav32", "cav33"} THEN
            IF Len(args) # 3 THEN Raise("ValueError")
            ELSE Ok(Pow10(args[1]) * Sigmoid(distance, args[2], args[3]) * 10)
        ELSE uniform_fun(distance, args, gbar)
    ELSE IF compartment = "axon" THEN AxonDensity(pkg, distance, mch, args, gbar)
    ELSE IF compartment = "soma" THEN uniform_fun(distance, args, gbar)
    ELSE Raise("UnboundLocalError")

\* get_channel_density that sets a negative density to 0
get_channel_density_clamp(pkg, distance, params) ==
    LET r == ProfileDensity(pkg, distance, params) IN
    IF ~r.ok THEN r
    ELSE IF r.value = NaN THEN Raise("AssertionError")
    ELSE IF r.value < 0 THEN Ok(0)
    ELSE r

get_channel_density(pkg, distance, params) ==
    LET r == ProfileDensity(pkg, distance, params) IN
    IF ~r.ok THEN r
    ELSE IF r.value = NaN \/ ~(r.value >= 0) THEN Raise("AssertionError")
    ELSE r

-----------------------------------------------------------------------------
(* Density parameters (params.py: ModelParameters.get_density_params) *)

\* the axon lines, hardcoded, before gbar is appended
AxonParams ==
    << <<"axon", "kas", <<0>>>>, <<"axon", "naf", <<10, 11, 30, 500>>>>, <<"axon", "km", <<0>>>> >>

\* the same keys for both cell types
CellIndices_shared(cell_type) == 0..70

\* the parameter sets of a cell type are keyed 0 .. n-1 (71 dMSN, 34 iMSN)
CellIndices(cell_type) == IF cell_type = "dmsn" THEN 0..70 ELSE 0..33

\* the dendritic mechanisms, in the order of the loop
DendMechs == <<"naf", "kaf", "kas", "kir", "sk", "can", "cav32", "cav33", "kdr", "cal12", "cal13", "car", "bk">>

\* the somatic mechanisms that take the default argument
SomaMechs == <<"naf", "kaf", "kas", "kdr", "bk", "cal12", "cal13", "car", "can">>

\* get_gbar(cell_type): the rows <<cell, mechanism, compartment, value>> of
\* the conductance table for the cell type or for all cell types
get_gbar(table, cell_type) == SelectSeq(table, LAMBDA row : row[1] = cell_type \/ row[1] = "all")

\* the rows of a table for one mechanism and compartment
Rows(conductances, mechanism, compartment) ==
    SelectSeq(conductances, LAMBDA row : row[2] = mechanism /\ row[3] = compartment)

\* the peak appended to a line: the first matching row, an error if none
PeakOrFail(conductances, mechanism, compartment) ==
    LET gbar == Rows(conductances, mechanism, compartment) IN
    IF Len(gbar) = 0 THEN Raise("MissingConductance") ELSE Ok(gbar[1][4])

\* the peak appended to a line: the first matching row, NaN if none
Peak(conductances, mechanism, compartment) ==
    LET gbar == Rows(conductances, mechanism, compartment) IN
    IF Len(gbar) = 0 THEN Ok(NaN) ELSE Ok(gbar[1][4])

\* the lines [compartment, mechanism, args] before gbar is appended;
\* density_params is the 'density_params' dictionary of the cell
ParamLines(density_params) ==
    [i \in DOMAIN DendMechs |->
        <<"dend", DendMechs[i],
          IF DendMechs[i] \in DOMAIN density_params THEN density_params[DendMechs[i]] ELSE <<0>> >>]
    \o [i \in DOMAIN SomaMechs |-> <<"soma", SomaMechs[i], <<0>> >>]
    \o << <<"soma", "sk", density_params["sk"]>>, <<"soma", "kir", density_params["kir"]>> >>
    \o AxonParams

\* get_density_params(cell_type, cell_index) on the parameter sets params
\* (cell index -> density_params) and the conductance table
get_density_params(params, table, cell_type, cell_index) ==
    IF cell_index \notin DOMAIN params THEN Raise("KeyError")
    ELSE IF ~({"sk", "kir"} \subseteq DOMAIN params[cell_index]) THEN Raise("KeyError")
    ELSE LET lines == ParamLines(params[cell_index])
             conductances == get_gbar(table, cell_type)
             peaks == [i \in DOMAIN lines |-> Peak(conductances, lines[i][2], lines[i][1])]
         IN IF \E i \in DOMAIN lines : ~peaks[i].ok
            THEN Raise("MissingConductance")
            ELSE Ok([i \in DOMAIN lines |-> Append(lines[i], peaks[i].value)])

-----------------------------------------------------------------------------
(* The data the constructor reads: the fitted parameter sets of the cell
   type (pickle file), the conductance table (csv file) and the morphology
   (SWC file) *)

FittedArgs ==
    [naf |-> <<0, 5, 60, 10>>, kaf |-> <<0, 5, 120, -30>>, kas |-> <<0, 60, 10>>,
     kir |-> <<0>>, sk |-> <<0>>, can |-> <<-10, 5, 60, 10>>,
     cav32 |-> <<0, 60, 10>>, cav33 |-> <<0, 60, 10>>]

\* the density_params dictionary of a cell in each variant of the data
DensityParamsIn(variant) ==
    IF variant = "fit" THEN FittedArgs
    ELSE IF variant = "steep_naf" THEN [FittedArgs EXCEPT !.naf = <<0, 15, 0, 10>>]
    ELSE IF variant = "no_kaf" THEN [m \in DOMAIN FittedArgs \ {"kaf"} |-> FittedArgs[m]]
    ELSE [m \in DOMAIN FittedArgs \ {"sk"} |-> FittedArgs[m]]

\* self._params[cell_type]: cell index -> density_params
ParamSets(variant, cell_type) == [i \in CellIndices(cell_type) |-> DensityParamsIn(variant)]

\* a conductance table with a row for every line and for pas
FullTable ==
    [i \in DOMAIN DendMechs |-> <<"all", DendMechs[i], "dend", 2>>]
    \o << <<"dmsn", "naf", "soma", 3>>, <<"imsn", "naf", "soma", 1>> >>
    \o [i \in DOMAIN SomaMechs |-> <<"all", SomaMechs[i], "soma", 2>>]
    \o << <<"all", "sk", "soma", 2>>, <<"all", "kir", "soma", 2>> >>
    \o [i \in DOMAIN AxonParams |-> <<"all", AxonParams[i][2], "axon", 2>>]
    \o << <<"all", "pas", "all", 1>> >>

Without(table, mechanism, compartment) ==
    SelectSeq(table, LAMBDA row : ~(row[2] = mechanism /\ row[3] = compartment))

\* the conductance table in each variant of the data
TableIn(variant) ==
    IF variant = "full" THEN FullTable
    ELSE IF variant = "no_dend_kdr" THEN Without(FullTable, "kdr", "dend")
    ELSE IF variant = "no_dend_can" THEN Without(FullTable, "can", "dend")
    ELSE IF variant = "neg_soma_kaf"
         THEN [i \in DOMAIN FullTable |->
                 IF FullTable[i][2] = "kaf" /\ FullTable[i][3] = "soma"
                 THEN <<"all", "kaf", "soma", -1>> ELSE FullTable[i]]
    ELSE Without(FullTable, "pas", "all")

\* the sections the morphology file instantiates (self.all)
SectionsIn(variant) ==
    IF variant = "ok" THEN all
    ELSE IF variant = "two_somas" THEN <<soma, <<"soma", 1>> >> \o axon \o dend
    ELSE IF variant = "no_soma" THEN axon \o dend
    ELSE all \o << <<"apic", 0>> >>

\* h.distance(segment.x, sec=section): path length from the soma to the
\* centre of the segment, dendrites in a chain
SegDistance(seg) ==
    LET sec == seg[1] IN
    IF SecName(sec) = "soma" THEN 0
    ELSE SecL(soma) \div 2
         + (IF SecName(sec) = "dend" THEN sec[2] * SecL(sec) ELSE 0)
         + ((2 * seg[2] + 1) * SecL(sec)) \div (2 * nseg(sec))

-----------------------------------------------------------------------------
(* MSN.__init__ and the methods it calls, one action per method *)

\* the constructor called with the given index on the given data
NewBuild(cell_index, fitted, table, morphology) ==
    [pc |-> "start", cell_index |-> cell_index,
     fitted |-> fitted, table |-> table, morphology |-> morphology,
     density_params |-> <<>>, gbar_pas |-> NaN,
     sections |-> <<>>, discretised |-> FALSE,
     inserted |-> {}, passive |-> {},
     writes |-> <<>>, bg_noise |-> FALSE,
     error |-> "", returned |-> FALSE]

\* an exception leaves the constructor: no object reaches the caller
Abort(b, e) == [b EXCEPT !.pc = "failed", !.error = e]

BuildFrame == UNCHANGED <<package, probe, cellType, mech, syns, bg_noise, da, ach, lastOp, nAdds>>

\* the constructor with _setup_density called right after _setup_morphology
RunsAt_density_early(step) ==
    CASE step = "load_parameters" -> "start"
      [] step = "_setup_morphology" -> "params"
      [] step = "_setup_density" -> "morphology"
      [] step = "_setup_mechanisms" -> "density"
      [] step = "_setup_biophysics" -> "mechanisms"
      [] step = "containers" -> "biophysics"

\* the value of build.pc at which each step of the constructor runs
RunsAt(step) ==
    CASE step = "load_parameters" -> "start"
      [] step = "_setup_morphology" -> "params"
      [] step = "_setup_mechanisms" -> "morphology"
      [] step = "_setup_biophysics" -> "mechanisms"
      [] step = "_setup_density" -> "biophysics"
      [] step = "containers" -> "density"

\* cell.py 243-249: parameter lookup
load_parameters ==
    /\ build.pc = RunsAt("load_parameters")
    /\ LET r == get_density_params(ParamSets(build.fitted, cellType), TableIn(build.table),
                                   cellType, build.cell_index)
           pas == SelectSeq(get_gbar(TableIn(build.table), cellType), LAMBDA row : row[2] = "pas")
       IN build' = IF ~r.ok THEN Abort(build, r.error)
                   ELSE IF Len(pas) = 0 THEN Abort([build EXCEPT !.density_params = r.value], "IndexError")
                   ELSE [build EXCEPT !.pc = "params", !.density_params = r.value,
                                      !.gbar_pas = pas[1][4]]
    /\ BuildFrame

\* _setup_morphology taking the first soma of the list without the assertion
setup_morphology_first_soma ==
    /\ build.pc = RunsAt("_setup_morphology")
    /\ LET secs == SectionsIn(build.morphology)
           somas == SelectSeq(secs, LAMBDA sec : SecName(sec) = "soma")
       IN build' = IF Len(somas) = 0
                   THEN Abort([build EXCEPT !.sections = secs], "IndexError")
                   ELSE [build EXCEPT !.pc = "morphology", !.sections = secs, !.discretised = TRUE]
    /\ BuildFrame

\* cell.py 262-285: instantiate the sections, require one soma, set nseg
setup_morphology ==
    /\ build.pc = RunsAt("_setup_morphology")
    /\ LET secs == SectionsIn(build.morphology)
           somas == SelectSeq(secs, LAMBDA sec : SecName(sec) = "soma")
       IN build' = IF Len(somas) # 1
                   THEN Abort([build EXCEPT !.sections = secs], "AssertionError")
                   ELSE [build EXCEPT !.pc = "morphology", !.sections = secs, !.discretised = TRUE]
    /\ BuildFrame

\* the mechanisms _setup_mechanisms inserts into a section of a known class
ChannelsOf(sec) ==
    IF SecName(sec) = "soma" THEN somatic_channels
    ELSE IF SecName(sec) = "axon" THEN axonal_channels
    ELSE dendritic_channels

\* _setup_mechanisms with the dendritic set as the final else
KnownSection_any(sec) == TRUE

KnownSection(sec) == SecName(sec) \in {"soma", "axon", "dend"}

setup_mechanisms ==
    /\ build.pc = RunsAt("_setup_mechanisms")
    /\ LET secs == build.sections
           unknown == {i \in DOMAIN secs : ~KnownSection(secs[i])}
           \* the sections reached before the first unknown one
           done == {i \in DOMAIN secs : \A u \in unknown : i < u}
           ins == build.inserted \cup UNION {{<<secs[i], m>> : m \in ChannelsOf(secs[i])} : i \in done}
       IN build' = IF unknown # {}
                   THEN Abort([build EXCEPT !.inserted = ins], "ValueError")
                   ELSE [build EXCEPT !.pc = "mechanisms", !.inserted = ins]
    /\ BuildFrame

setup_biophysics ==
    /\ build.pc = RunsAt("_setup_biophysics")
    /\ build' = [build EXCEPT !.pc = "biophysics",
                              !.inserted = @ \cup {<<sec, "pas">> : sec \in Range(build.sections)},
                              !.passive = Range(build.sections)]
    /\ BuildFrame

RECURSIVE Flatten(_)
Flatten(ss) == IF ss = <<>> THEN <<>> ELSE Head(ss) \o Flatten(Tail(ss))

\* the segments of the sections, in the order of the two inner loops
SegmentSeq(secs) == Flatten([i \in DOMAIN secs |-> [k \in 1..nseg(secs[i]) |-> <<secs[i], k - 1>>]])

\* the pairs <<line, segment>> in the order _setup_density visits them
DensityPlan(density_params, secs) ==
    Flatten([i \in DOMAIN density_params |->
               LET segs == SegmentSeq(SelectSeq(secs, LAMBDA sec : SecName(sec) = density_params[i][1]))
               IN [k \in DOMAIN segs |-> <<density_params[i], segs[k]>>]])

\* mechanism.startswith('ca')
StartsWithCa(mechanism) ==
    mechanism \in {"can", "cav32", "cav33", "cal12", "cal13", "car", "cadyn", "caldyn"}

\* the attribute _setup_density assigns for a mechanism
DensityAttr(mechanism) == <<IF StartsWithCa(mechanism) THEN "pbar_" ELSE "gbar_", mechanism>>

\* one pass of the innermost loop: resolve the density, then assign it to
\* the attribute of the segment, which exists only if the mechanism is
\* inserted in the section (the f-string and exec pass a float unchanged)
DensityWrite(b, line, seg) ==
    LET r == get_channel_density("msnmodel", SegDistance(seg), line) IN
    IF ~r.ok THEN r
    ELSE IF <<seg[1], line[2]>> \notin b.inserted THEN Raise("AttributeError")
    ELSE Ok(<<seg, DensityAttr(line[2]), r.value>>)

RECURSIVE DensityLoop(_, _, _)
\* the loops of _setup_density from the n-th visit on: the values written, in
\* order, and the exception that ended the loops ("" if none)
DensityLoop(b, plan, n) ==
    IF n > Len(plan) THEN [writes |-> <<>>, error |-> ""]
    ELSE LET r == DensityWrite(b, plan[n][1], plan[n][2]) IN
         IF ~r.ok THEN [writes |-> <<>>, error |-> r.error]
         ELSE LET rest == DensityLoop(b, plan, n + 1) IN
              [writes |-> <<r.value>> \o rest.writes, error |-> rest.error]

setup_density ==
    /\ build.pc = RunsAt("_setup_density")
    /\ LET done == DensityLoop(build, DensityPlan(build.density_params, build.sections), 1)
       IN build' = IF done.error # ""
                   THEN Abort([build EXCEPT !.writes = done.writes], done.error)
                   ELSE [build EXCEPT !.pc = "density", !.writes = done.writes]
    /\ BuildFrame

\* cell.py 256-260: the remaining assignments; the constructor returns
containers ==
    /\ build.pc = RunsAt("containers")
    /\ build' = [build EXCEPT !.pc = "ready", !.bg_noise = TRUE, !.returned = TRUE]
    /\ BuildFrame

IndexArgs == {-1, 0, 33, 34, 70, 71}

FittedVariants == {"fit", "steep_naf", "no_kaf", "no_sk"}

TableVariants == {"full", "no_dend_kdr", "no_dend_can", "neg_soma_kaf", "no_pas"}

MorphologyVariants == {"ok", "two_somas", "no_soma", "apic"}

-----------------------------------------------------------------------------
NoModulator == [made |-> FALSE]

Packages == {"msnmodel", "msn"}

\* build of a cell whose constructor has returned
Built == [pc |-> "ready"]

\* no density or parameter function called yet
NoProbe == [fn |-> "none"]

Init ==
    /\ cellType \in {"dmsn", "imsn"}
    /\ mech = [mi \in MechInsts |-> Unmodulated]
    /\ syns = <<>>
    /\ bg_noise = <<>>
    /\ da = NoModulator
    /\ ach = NoModulator
    /\ lastOp = [op |-> "MSN", failed |-> FALSE, arg |-> <<>>, again |-> FALSE]
    /\ nAdds = 0
    /\ package = "msnmodel"
    /\ build = Built
    /\ probe = NoProbe

\* a cell of either package, for the background noise both packages have
InitNoise ==
    /\ cellType \in {"dmsn", "imsn"}
    /\ mech = [mi \in MechInsts |-> Unmodulated]
    /\ syns = <<>>
    /\ bg_noise = <<>>
    /\ da = NoModulator
    /\ ach = NoModulator
    /\ lastOp = [op |-> "MSN", failed |-> FALSE, arg |-> <<>>, again |-> FALSE]
    /\ nAdds = 0
    /\ package \in Packages
    /\ build = Built
    /\ probe = NoProbe

\* MSN(cell_type, cell_index) about to run
InitBuild ==
    /\ cellType \in {"dmsn", "imsn"}
    /\ mech = [mi \in MechInsts |-> Unmodulated]
    /\ syns = <<>>
    /\ bg_noise = <<>>
    /\ da = NoModulator
    /\ ach = NoModulator
    /\ lastOp = [op |-> "MSN", failed |-> FALSE, arg |-> <<>>, again |-> FALSE]
    /\ nAdds = 0
    /\ package = "msnmodel"
    /\ probe = NoProbe
    /\ \E cell_index \in IndexArgs, fitted \in FittedVariants, table \in TableVariants,
          morphology \in MorphologyVariants :
          build = NewBuild(cell_index, fitted, table, morphology)

NextBuild ==
    \/ load_parameters
    \/ setup_morphology
    \/ setup_mechanisms
    \/ setup_biophysics
    \/ setup_density
    \/ containers

SpecBuild == InitBuild /\ [][NextBuild]_vars

ScaleArgs == {None, <<0>>, <<2>>}

GlutScaleArgs == {<<None, None>>, << <<2>>, <<3>> >>}

DelayArgs == {<<>>, <<5>>, [i \in 1..Len(all) |-> 10 * i]}

\* the scale factors of one call: glutamate factors are given together with
\* a nonzero GABA factor
ScaleCombos ==
    {c \in GlutScaleArgs \X ScaleArgs : (c[1] # <<None, None>>) <=> Truthy(c[2])}

AddNoise ==
    \E dend_only \in BOOLEAN, c \in ScaleCombos, delays \in DelayArgs, held \in BOOLEAN :
        /\ (bg_noise = <<>> => held)
        /\ add_bg_noise(dend_only, c[1][1], c[1][2], c[2], delays, held)

RemoveNoise == \E held \in BOOLEAN : (bg_noise = <<>> => held) /\ remove_bg_noise(held)

NextNoise == AddNoise \/ RemoveNoise

SpecNoise == InitNoise /\ [][NextNoise]_vars

ModulateArgs == {"all", "no_axon", Omitted}

PlayArgs == {{}, {"naf", "gaba"}, {"kaf", "glut"}}

\* cell.add_bg_noise() with its default arguments, on a cell without noise
\* and before it is modulated (as examples/example_4_modulation.py does)
DefaultNoise ==
    /\ nAdds = 0 /\ ~da.made /\ ~ach.made
    /\ add_bg_noise(FALSE, None, None, None, <<>>, TRUE)

ApplyDA ==
    \E modulate \in ModulateArgs, im \in BOOLEAN, gm \in BOOLEAN, gl \in BOOLEAN, play \in PlayArgs, d \in 0..(DrawPoints - 1) :
        Dopamine(modulate, im, gm, gl, play, d)

ResetDA == DA_reset

ShiftArgs == {0, -10, 20}

ResetArgs == {"all", "intrinsic", "gaba", "glut", "synaptic"}

ApplyACh ==
    \E modulate \in ModulateArgs, im \in BOOLEAN, gm \in BOOLEAN, gl \in BOOLEAN, shift_kaf \in ShiftArgs, play \in PlayArgs, d \in 0..(DrawPoints - 1) :
        Acetylcholine(modulate, im, gm, gl, shift_kaf, play, d)

ResetACh == \E what \in ResetArgs : ACh_reset(what)

\* a cell with background noise and one modulator, Dopamine or Acetylcholine
Next ==
    \/ DefaultNoise
    \/ (~ach.made /\ ApplyDA)
    \/ ResetDA
    \/ (~da.made /\ ApplyACh)
    \/ ResetACh

Spec == Init /\ [][Next]_vars

-----------------------------------------------------------------------------
(* What a modulator covers *)

\* the play vectors of a modulator
Vectors(nt, self) == {<<nt, k>> : k \in self.play}

\* the mechanisms of the drawn intrinsic set in the sections of a modulator
DrawnMechs(self) ==
    {mi \in MechInsts : mi[1][1] \in self.sections /\ mi[2] \in DOMAIN self.params.intrinsic}

\* the mechanisms the construction of a modulator wrote
TouchedMechs(self) == IF self.args.intrinsic THEN DrawnMechs(self) ELSE {}

\* whether a synapse type belongs to a class the modulator was built with
ClassEnabled(self, stype) ==
    \/ stype = "gaba" /\ self.args.gaba
    \/ stype \in {"ampa", "nmda"} /\ self.args.glut

\* the synapses the construction of a modulator wrote
TouchedSyns(self) ==
    {i \in 1..self.seen : /\ syns[i].live
                          /\ syns[i].seg[1] \in self.sections
                          /\ ClassEnabled(self, syns[i].stype)}

\* the play vectors attached to any field of a mechanism or synapse
Playing(m) == m.p_level \cup m.p_lev2 \cup m.p_modShift

-----------------------------------------------------------------------------
(* C1: after Dopamine() and then reset(), every intrinsic mechanism and every
   GABA/AMPA/NMDA synapse the modulator touched has damod = 0 and level = 0. *)
C1_DopamineResetDisables ==
    lastOp.op = "Dopamine.reset" =>
        /\ \A mi \in TouchedMechs(da) : mech[mi].damod = 0 /\ mech[mi].level = 0
        /\ \A i \in TouchedSyns(da) : syns[i].mod.damod = 0 /\ syns[i].mod.level = 0

(* C2: after Acetylcholine() without trajectories and then reset('all'), every
   intrinsic mechanism and every GABA/AMPA/NMDA synapse the modulator touched
   has damod = 0 and lev2 = 0. *)
C2_AcetylcholineResetDisables ==
    (lastOp.op = "Acetylcholine.reset" /\ lastOp.arg = "all" /\ ach.play = {}) =>
        /\ \A mi \in TouchedMechs(ach) : mech[mi].damod = 0 /\ mech[mi].lev2 = 0
        /\ \A i \in TouchedSyns(ach) : syns[i].mod.damod = 0 /\ syns[i].mod.lev2 = 0

(* C3: after a reset of a modulator built with trajectories in play, none of
   its trajectories is attached to the level, lev2 or modShift of any
   mechanism or synapse. *)
C3_ResetCancelsTrajectories ==
    /\ lastOp.op = "Dopamine.reset" =>
          /\ \A mi \in MechInsts : Playing(mech[mi]) \cap Vectors("DA", da) = {}
          /\ \A i \in DOMAIN syns : Playing(syns[i].mod) \cap Vectors("DA", da) = {}
    /\ (lastOp.op = "Acetylcholine.reset" /\ ~lastOp.failed) =>
          /\ \A mi \in MechInsts : Playing(mech[mi]) \cap Vectors("ACh", ach) = {}
          /\ \A i \in DOMAIN syns : Playing(syns[i].mod) \cap Vectors("ACh", ach) = {}

(* C4: a reset repeated immediately after the same reset (same modulator, same
   scope) leaves every field of every mechanism and synapse as the first
   reset left it. *)
C4_ResetIdempotent ==
    [][(lastOp'.op \in {"Dopamine.reset", "Acetylcholine.reset"} /\ lastOp'.again)
        => (mech' = mech /\ syns' = syns)]_vars

C4_Witness ==
    /\ lastOp.op = "Acetylcholine.reset" /\ lastOp.again /\ ~lastOp.failed
    /\ lastOp.arg = "intrinsic"
    /\ \E i \in TouchedSyns(ach) : syns[i].mod.damod = 1
    /\ \E mi \in TouchedMechs(ach) : mech[mi].damod = 0

\* the synapses of a reset scope
ScopeTypes(what) ==
    IF what = "gaba" THEN {"gaba"}
    ELSE IF what = "glut" THEN {"ampa", "nmda"}
    ELSE IF what = "all" THEN {"gaba", "ampa", "nmda"}
    ELSE {}

(* C5: Acetylcholine.reset(what) changes only the selected classes: the
   fields and the live trajectories of the mechanisms are unchanged unless
   what is 'intrinsic' or 'all', and those of a synapse are unchanged unless
   its type is in the scope. *)
C5_PartialResetFrame ==
    [][(lastOp'.op = "Acetylcholine.reset" /\ ~lastOp'.failed) =>
        /\ lastOp'.arg \notin {"intrinsic", "all"} => mech' = mech
        /\ \A i \in DOMAIN syns :
              syns[i].stype \notin ScopeTypes(lastOp'.arg) => syns'[i] = syns[i]]_vars

\* the play key and the drawn factor of a synapse type
PlayKey(stype) == IF stype = "gaba" THEN "gaba" ELSE "glut"

Factor(self, stype) ==
    IF stype = "gaba" THEN self.params.synaptic.GABA
    ELSE IF stype = "ampa" THEN self.params.synaptic.AMPA
    ELSE self.params.synaptic.NMDA

\* old -> new is what Dopamine() does to a covered mechanism or synapse
DA_Applied(old, new, factor, key, self) ==
    /\ new.damod = 1
    /\ new.maxMod = factor
    /\ IF key \in self.play
       THEN new.p_level = old.p_level \cup {<<"DA", key>>} /\ new.level = old.level
       ELSE new.level = 1 /\ new.p_level = old.p_level
    /\ new = [old EXCEPT !.damod = new.damod, !.maxMod = new.maxMod,
                         !.level = new.level, !.p_level = new.p_level]

\* old -> new is what Acetylcholine() does to a covered mechanism or synapse
ACh_Applied(old, new, factor, key, self) ==
    /\ new.damod = 1
    /\ new.max2 = factor
    /\ IF key \in self.play
       THEN new.p_lev2 = old.p_lev2 \cup {<<"ACh", key>>} /\ new.lev2 = old.lev2
       ELSE new.lev2 = 1 /\ new.p_lev2 = old.p_lev2
    /\ new = [old EXCEPT !.damod = new.damod, !.max2 = new.max2,
                         !.lev2 = new.lev2, !.p_lev2 = new.p_lev2]

\* the enable, factor and level fields of both modulators
LevelFields(m) == <<m.damod, m.maxMod, m.level, m.p_level, m.max2, m.lev2, m.p_lev2>>

(* C6: constructing a modulator sets, on every mechanism of the drawn set and
   every synapse of an enabled class in the section scope, damod = 1, the max
   factor to the drawn value and the level to 1, or attaches the level to the
   trajectory supplied for it instead of setting it; the enable, factor and
   level fields of every other mechanism and synapse are not written. *)
C6_ApplyWrites ==
    [][/\ lastOp'.op = "Dopamine" =>
            /\ \A mi \in MechInsts :
                  IF mi \in TouchedMechs(da')
                  THEN DA_Applied(mech[mi], mech'[mi], da'.params.intrinsic[mi[2]], mi[2], da')
                  ELSE mech'[mi] = mech[mi]
            /\ \A i \in DOMAIN syns :
                  IF i \in TouchedSyns(da')
                  THEN /\ DA_Applied(syns[i].mod, syns'[i].mod, Factor(da', syns[i].stype), PlayKey(syns[i].stype), da')
                       /\ syns'[i] = [syns[i] EXCEPT !.mod = syns'[i].mod]
                  ELSE syns'[i] = syns[i]
       /\ lastOp'.op = "Acetylcholine" =>
            /\ \A mi \in MechInsts :
                  IF mi \in TouchedMechs(ach')
                  THEN ACh_Applied(mech[mi], mech'[mi], ach'.params.intrinsic[mi[2]], mi[2], ach')
                  ELSE LevelFields(mech'[mi]) = LevelFields(mech[mi])
            /\ \A i \in DOMAIN syns :
                  IF i \in TouchedSyns(ach')
                  THEN /\ ACh_Applied(syns[i].mod, syns'[i].mod, Factor(ach', syns[i].stype), PlayKey(syns[i].stype), ach')
                       /\ syns'[i] = [syns[i] EXCEPT !.mod = syns'[i].mod]
                  ELSE syns'[i] = syns[i]]_vars

C6_Witness ==
    /\ lastOp.op = "Dopamine"
    /\ da.play = {"naf", "gaba"}
    /\ \E mi \in TouchedMechs(da) : mi[2] = "naf" /\ <<"DA", "naf">> \in mech[mi].p_level /\ mech[mi].level = 0
    /\ \E mi \in TouchedMechs(da) : mi[2] = "kir" /\ mech[mi].level = 1 /\ mech[mi].maxMod = da.params.intrinsic.kir
    /\ \E i \in TouchedSyns(da) : syns[i].stype = "nmda" /\ syns[i].mod.level = 1 /\ syns[i].mod.damod = 1
    /\ \E i \in TouchedSyns(da) : syns[i].stype = "gaba" /\ <<"DA", "gaba">> \in syns[i].mod.p_level

\* the sections the modulate argument stands for
ScopeOf(nt, modulate) ==
    IF modulate = "all" \/ (modulate = Omitted /\ nt = "ACh")
    THEN Range(all)
    ELSE {sec \in Range(all) : SecName(sec) # "axon"}

\* nothing outside the sections secs changes in this step
OutsideUnchanged(secs) ==
    /\ \A mi \in MechInsts : mi[1][1] \notin secs => mech'[mi] = mech[mi]
    /\ \A i \in DOMAIN syns : syns[i].seg[1] \notin secs => syns'[i] = syns[i]

(* C7: a modulator built with modulate = 'no_axon' covers the soma and the
   dendrites only, and neither its construction nor any later reset changes a
   field of a mechanism or synapse of an axon segment; with 'all' it covers
   every section. Dopamine defaults to 'no_axon', Acetylcholine to 'all'. *)
C7_SectionScope ==
    [][/\ da'.made => da'.sections = ScopeOf("DA", da'.args.modulate)
       /\ ach'.made => ach'.sections = ScopeOf("ACh", ach'.args.modulate)
       /\ lastOp'.op \in {"Dopamine", "Dopamine.reset"} =>
             OutsideUnchanged(ScopeOf("DA", da'.args.modulate))
       /\ lastOp'.op \in {"Acetylcholine", "Acetylcholine.reset"} =>
             OutsideUnchanged(ScopeOf("ACh", ach'.args.modulate))
       /\ (lastOp'.op = "Dopamine" /\ da'.args.intrinsic) =>
             \A mi \in MechInsts :
                 (mi[2] = "naf" /\ mi[1][1] \in ScopeOf("DA", da'.args.modulate)) => mech'[mi].damod = 1
       /\ (lastOp'.op = "Acetylcholine" /\ ach'.args.intrinsic) =>
             \A mi \in MechInsts :
                 (mi[2] = "naf" /\ mi[1][1] \in ScopeOf("ACh", ach'.args.modulate)) => mech'[mi].damod = 1]_vars

C7_Witness ==
    /\ lastOp.op = "Dopamine.reset"
    /\ da.args.modulate = Omitted
    /\ \E i \in DOMAIN syns : SecName(syns[i].seg[1]) = "axon" /\ syns[i].mod = Unmodulated /\ i <= da.seen
    /\ \E i \in TouchedSyns(da) : syns[i].mod.maxMod = Factor(da, syns[i].stype) /\ syns[i].mod.level = 0
    /\ \A mi \in MechInsts : SecName(mi[1][1]) = "axon" => mech[mi] = Unmodulated
    /\ \E mi \in TouchedMechs(da) : mech[mi].damod = 1

\* the kaf mechanisms in the sections of a modulator
KafIn(self) == {mi \in MechInsts : mi[2] = "kaf" /\ mi[1][1] \in self.sections}

(* C8 as stated: on a dmsn cell, Acetylcholine() with a nonzero shift sets
   modShift = shift on every kaf mechanism in scope. *)
C8_ShiftAlwaysSet ==
    (lastOp.op = "Acetylcholine" /\ cellType = "dmsn" /\ ach.args.shift_kaf # 0) =>
        \A mi \in KafIn(ach) : mech[mi].modShift = ach.args.shift_kaf

(* C8: on a dmsn cell, Acetylcholine() with a nonzero shift sets modShift =
   shift on every kaf mechanism in scope, or attaches modShift to the 'kaf'
   trajectory when play holds one; this happens whatever the intrinsic, gaba
   and glut flags are and writes neither damod, max2 nor lev2 of kaf. On an
   imsn cell no step writes modShift. *)
C8_KafShift ==
    [][/\ cellType = "imsn" =>
             \A mi \in MechInsts : /\ mech'[mi].modShift = mech[mi].modShift
                                   /\ mech'[mi].p_modShift = mech[mi].p_modShift
       /\ (lastOp'.op = "Acetylcholine" /\ cellType = "dmsn" /\ ach'.args.shift_kaf # 0) =>
             \A mi \in KafIn(ach') :
                 /\ IF "kaf" \in ach'.play
                    THEN /\ mech'[mi].p_modShift = mech[mi].p_modShift \cup {<<"ACh", "kaf">>}
                         /\ mech'[mi].modShift = mech[mi].modShift
                    ELSE /\ mech'[mi].modShift = ach'.args.shift_kaf
                         /\ mech'[mi].p_modShift = mech[mi].p_modShift
                 /\ LevelFields(mech'[mi]) = LevelFields(mech[mi])]_vars

C8_Witness ==
    /\ lastOp.op = "Acetylcholine" /\ cellType = "dmsn"
    /\ ach.args.shift_kaf = 20
    /\ ~ach.args.intrinsic /\ ~ach.args.gaba /\ ~ach.args.glut
    /\ "kaf" \notin ach.play
    /\ KafIn(ach) # {}
    /\ \A mi \in KafIn(ach) : mech[mi].modShift = 20 /\ mech[mi].damod = 0

(* C9 as stated: on a dmsn cell the synaptic factors of Acetylcholine are
   exactly 1.0 and constructing it leaves every GABA/AMPA/NMDA synapse as it
   was. *)
C9_ApplyLeavesSynapses ==
    [][(lastOp'.op = "Acetylcholine" /\ cellType = "dmsn") =>
        /\ ach'.params.synaptic = [NMDA |-> 1000, AMPA |-> 1000, GABA |-> 1000]
        /\ syns' = syns]_vars

(* C9: on a dmsn cell the synaptic factors of Acetylcholine are exactly 1.0
   and constructing it writes max2 = 1.0 (with damod = 1) to every synapse it
   covers; on an imsn cell the factors lie in their ranges and the
   construction writes them to the synapses it covers, changing them. *)
C9_NeutralFactors ==
    [][lastOp'.op = "Acetylcholine" =>
        IF cellType = "dmsn"
        THEN /\ ach'.params.synaptic = [NMDA |-> 1000, AMPA |-> 1000, GABA |-> 1000]
             /\ \A i \in TouchedSyns(ach') : syns'[i].mod.max2 = 1000 /\ syns'[i].mod.damod = 1
        ELSE /\ ach'.params.synaptic.NMDA \in 1000..1049
             /\ ach'.params.synaptic.AMPA \in 990..1009
             /\ ach'.params.synaptic.GABA \in 990..1009
             /\ \A i \in TouchedSyns(ach') :
                   /\ syns'[i].mod.max2 = Factor(ach', syns[i].stype)
                   /\ syns'[i] # syns[i]]_vars

C9_Witness ==
    /\ lastOp.op = "Acetylcholine" /\ cellType = "dmsn"
    /\ \E i \in TouchedSyns(ach) : syns[i].stype = "gaba"
    /\ \E i \in TouchedSyns(ach) : syns[i].stype = "nmda"
    /\ \A i \in TouchedSyns(ach) : syns[i].mod.max2 = 1000 /\ syns[i].mod.damod = 1

(* C10: after any sequence of add_bg_noise and remove_bg_noise calls the
   tracked list holds exactly the synapses the most recent add_bg_noise
   created (none when the last call was remove_bg_noise), and every synapse
   an earlier add_bg_noise created has weight 0. *)
C10_NoiseReplaced ==
    /\ lastOp.op = "remove_bg_noise" => bg_noise = <<>>
    /\ lastOp.op = "add_bg_noise" =>
          Range(bg_noise) = {i \in DOMAIN syns : syns[i].born = nAdds}
    /\ Range(bg_noise) \subseteq {i \in DOMAIN syns : syns[i].born = nAdds}
    /\ \A i \in DOMAIN syns : syns[i].born < nAdds => syns[i].weight = 0
    /\ \A i \in DOMAIN syns : syns[i].weight # 0 => i \in Range(bg_noise)

C10_Witness ==
    /\ lastOp.op = "add_bg_noise" /\ nAdds = 2
    /\ \E i \in DOMAIN syns : syns[i].born = 1 /\ syns[i].live /\ syns[i].weight = 0
    /\ \E i \in Range(bg_noise) : syns[i].born = 2 /\ syns[i].weight > 0
    /\ Len(bg_noise) = 3 * Len(all)

(* C11: a remove_bg_noise call leaves the tracked list empty and every
   connection that was tracked before it with weight 0, so add_bg_noise
   followed by remove_bg_noise leaves no synapse with a nonzero weight; a
   remove_bg_noise call on an empty tracked list changes nothing of the
   cell (a second call in a row equals the first alone). *)
C11_RemoveClears ==
    [][lastOp'.op = "remove_bg_noise" =>
          /\ bg_noise' = <<>>
          /\ \A i \in Range(bg_noise) : syns'[i].weight = 0
          /\ (lastOp.op = "add_bg_noise" => \A i \in DOMAIN syns' : syns'[i].weight = 0)
          /\ (bg_noise = <<>> => syns' = syns /\ mech' = mech /\ nAdds' = nAdds)
          /\ Len(syns') = Len(syns)]_vars

C11_Witness ==
    /\ lastOp.op = "remove_bg_noise" /\ lastOp.again
    /\ bg_noise = <<>>
    /\ Len(syns) = PerSection * Len(all)
    /\ \E i \in DOMAIN syns : syns[i].live /\ syns[i].weight = 0

\* the sections add_bg_noise targets
TargetSections(dend_only) ==
    IF dend_only THEN SelectSeq(all, LAMBDA sec : SecName(sec) = "dend") ELSE all

\* the synapse types tracked for one section, in order
TrackedKinds == IF package = "msnmodel" THEN <<"ampa", "nmda", "gaba">> ELSE <<"glut", "gaba">>

\* the tracked list is made of whole groups of the given kinds, one group per
\* section, for the first sections of secs in their order
GroupedBy(kinds, secs) ==
    /\ Len(bg_noise) % Len(kinds) = 0
    /\ Len(bg_noise) <= Len(kinds) * Len(secs)
    /\ \A j \in DOMAIN bg_noise :
          /\ syns[bg_noise[j]].stype = kinds[((j - 1) % Len(kinds)) + 1]
          /\ syns[bg_noise[j]].seg[1] = secs[((j - 1) \div Len(kinds)) + 1]

(* C12 as stated: after an add_bg_noise call that completes, the tracked
   list holds for each target section one AMPA, one NMDA and one GABA
   synapse in that order, 3 entries per target section. *)
C12_ThreePerSection ==
    (lastOp.op = "add_bg_noise" /\ ~lastOp.failed) =>
        /\ Len(bg_noise) = 3 * Len(TargetSections(lastOp.arg[1]))
        /\ GroupedBy(<<"ampa", "nmda", "gaba">>, TargetSections(lastOp.arg[1]))

(* C12 (amended): after add_bg_noise the tracked list holds, for the target
   sections in their order (all sections, or the dendrites when dend_only),
   one AMPA, one NMDA and one GABA synapse per section in the msnmodel
   package (3 entries) and one glutamate and one GABA synapse per section in
   the legacy msn package (2 entries); a call that completes covers every
   target section, a call that raises on a short delays list covers the
   sections before the missing delay. *)
C12_TrackedPerSection ==
    lastOp.op = "add_bg_noise" =>
        /\ GroupedBy(TrackedKinds, TargetSections(lastOp.arg[1]))
        /\ PerSection = Len(TrackedKinds)
        /\ ~lastOp.failed => Len(bg_noise) = PerSection * Len(TargetSections(lastOp.arg[1]))
        /\ lastOp.failed => Len(bg_noise) < PerSection * Len(TargetSections(lastOp.arg[1]))

C12_Witness ==
    /\ lastOp.op = "add_bg_noise" /\ ~lastOp.failed /\ lastOp.arg[1] = TRUE
    /\ package = "msnmodel"
    /\ Len(bg_noise) = 3 * NDend
    /\ \A j \in DOMAIN bg_noise : SecName(syns[bg_noise[j]].seg[1]) = "dend"

(* C13: after add_bg_noise every AMPA, NMDA (or glutamate) connection it
   created has weight gbase (3 for dmsn, 2 for imsn, in 1e-4 uS) and every
   GABA connection has weight gbase*5 when gaba_scale_factor is None and
   gbase*3*gaba_scale_factor for every number given, 0 included. *)
C13_GabaConductance ==
    lastOp.op = "add_bg_noise" =>
        /\ gbase = (IF cellType = "dmsn" THEN 3 ELSE 2)
        /\ \A i \in Range(bg_noise) :
              IF syns[i].stype = "gaba"
              THEN syns[i].weight = (IF lastOp.arg[2] = None THEN gbase * 5
                                     ELSE gbase * 3 * lastOp.arg[2][1])
              ELSE syns[i].weight = gbase

-----------------------------------------------------------------------------
(* Calls of the density functions on their own *)

PackageArgs == Packages

DistanceArgs == {0, 30, 31, 100, 499, 500, 600}

GbarArgs == {NaN, -1, 0, 2}

CompartmentArgs == {"soma", "dend", "axon", "all"}

MechArgs == {"naf", "kaf", "kas", "kir", "can", "cav32", "kdr", "km", "Im"}

ShapeArgs == {<<>>, <<0>>, <<-10>>, <<10, 60, 10>>, <<0, 5, 60, 10>>, <<0, 15, 60, 10>>,
              <<10, 11, 30, 500>>, <<0, 5, 120, -30>>}

\* the result field of a call not made yet
NotCalled == [ok |-> FALSE, error |-> "not called"]

\* the calls of get_channel_density, step_fun and uniform_fun to make
DensityCalls ==
    {[fn |-> "get_channel_density", pkg |-> pkg, distance |-> distance,
      params |-> <<compartment, mch, args, gbar>>, result |-> NotCalled] :
        pkg \in PackageArgs, distance \in DistanceArgs, compartment \in CompartmentArgs,
        mch \in MechArgs, args \in ShapeArgs, gbar \in GbarArgs}
    \cup
    {[fn |-> f, distance |-> distance, args |-> args, gbar |-> gbar, result |-> NotCalled] :
        f \in {"step_fun", "uniform_fun"}, distance \in DistanceArgs, args \in ShapeArgs, gbar \in GbarArgs}

InitDensity ==
    /\ cellType = "dmsn"
    /\ mech = [mi \in MechInsts |-> Unmodulated]
    /\ syns = <<>>
    /\ bg_noise = <<>>
    /\ da = NoModulator
    /\ ach = NoModulator
    /\ lastOp = [op |-> "MSN", failed |-> FALSE, arg |-> <<>>, again |-> FALSE]
    /\ nAdds = 0
    /\ package = "msnmodel"
    /\ build = Built
    /\ probe \in DensityCalls

CallChannelDensity ==
    /\ probe.fn = "get_channel_density" /\ probe.result = NotCalled
    /\ probe' = [probe EXCEPT !.result = get_channel_density(probe.pkg, probe.distance, probe.params)]
    /\ UNCHANGED <<package, build, cellType, mech, syns, bg_noise, da, ach, lastOp, nAdds>>

CallStepFun ==
    /\ probe.fn = "step_fun" /\ probe.result = NotCalled
    /\ probe' = [probe EXCEPT !.result = step_fun(probe.distance, probe.args, probe.gbar)]
    /\ UNCHANGED <<package, build, cellType, mech, syns, bg_noise, da, ach, lastOp, nAdds>>

CallUniformFun ==
    /\ probe.fn = "uniform_fun" /\ probe.result = NotCalled
    /\ probe' = [probe EXCEPT !.result = uniform_fun(probe.distance, probe.args, probe.gbar)]
    /\ UNCHANGED <<package, build, cellType, mech, syns, bg_noise, da, ach, lastOp, nAdds>>

NextDensity == CallChannelDensity \/ CallStepFun \/ CallUniformFun

SpecDensity == InitDensity /\ [][NextDensity]_vars

\* the dendritic mechanisms get_channel_density has a profile of their own for
DendProfiles == {"naf", "kaf", "kas", "kir", "sk", "can", "cav32", "cav33"}

\* the result of a call that resolves with the uniform profile
UniformResult(args, gbar, result) ==
    IF Len(args) = 0 THEN result = Raise("IndexError")
    ELSE IF gbar = NaN \/ gbar < 0 THEN result = Raise("AssertionError")
    ELSE result = Ok(gbar * Pow10(args[1]) * 1000)

(* C15: get_channel_density raises and returns no value for an axon
   mechanism its axon branch does not list (any but kas, naf and the
   M-current name of the package), whereas for the soma and for a dendritic
   mechanism without a profile of its own it resolves with the uniform
   profile, peak * 10^args[0], and never fails for being unlisted (only on
   empty args or a negative or missing peak). *)
C15_UnlistedMechanism ==
    (probe.fn = "get_channel_density" /\ probe.result # NotCalled) =>
        LET compartment == probe.params[1]
            mch == probe.params[2]
        IN
        /\ (compartment = "axon" /\ mch \notin {"kas", "naf", AxonMCurrent(probe.pkg)}) =>
               probe.result = Raise("UnboundLocalError")
        /\ (compartment = "soma" \/ (compartment = "dend" /\ mch \notin DendProfiles)) =>
               UniformResult(probe.params[3], probe.params[4], probe.result)

C15_Witness ==
    /\ probe.fn = "get_channel_density" /\ probe.pkg = "msnmodel"
    /\ probe.params = <<"axon", "kdr", <<0>>, 2>>
    /\ probe.result = Raise("UnboundLocalError")

\* the result of a call that resolves with the step profile
StepResult(distance, args, gbar, result) ==
    IF Len(args) # 4 THEN result = Raise("ValueError")
    ELSE LET value == IF args[3] < distance /\ distance < args[4] THEN args[1] ELSE args[2] IN
         IF gbar = NaN \/ value * gbar < 0 THEN result = Raise("AssertionError")
         ELSE result = Ok(value * gbar * 1000)

\* a get_channel_density call made on a line get_density_params emits for the axon
OnEmittedAxonLine ==
    \E i \in DOMAIN AxonParams :
        /\ probe.params[1] = AxonParams[i][1]
        /\ probe.params[2] = AxonParams[i][2]
        /\ probe.params[3] = AxonParams[i][3]

(* C16 as stated: for the axon, kas and Im resolve with the uniform profile
   and naf with the step profile, and the M-current line the parameter
   store emits is resolved. *)
C16_AxonDispatch ==
    (probe.fn = "get_channel_density" /\ probe.result # NotCalled /\ probe.params[1] = "axon") =>
        /\ probe.params[2] \in {"kas", "Im"} =>
               UniformResult(probe.params[3], probe.params[4], probe.result)
        /\ probe.params[2] = "naf" =>
               StepResult(probe.distance, probe.params[3], probe.params[4], probe.result)

(* C16 (amended): for the axon, kas and the M-current resolve with the
   uniform profile, peak * 10^args[0] whatever the distance, and naf with
   the step profile; the M-current is named km in the msnmodel package and
   Im in the legacy msn package, and each resolver raises on the other
   name; the axon lines get_density_params of msnmodel emits (kas, naf, km)
   are all resolved by the msnmodel resolver. *)
C16_AxonDispatchByPackage ==
    (probe.fn = "get_channel_density" /\ probe.result # NotCalled /\ probe.params[1] = "axon") =>
        /\ probe.params[2] \in {"kas", IF probe.pkg = "msnmodel" THEN "km" ELSE "Im"} =>
               UniformResult(probe.params[3], probe.params[4], probe.result)
        /\ probe.params[2] = (IF probe.pkg = "msnmodel" THEN "Im" ELSE "km") =>
               probe.result = Raise("UnboundLocalError")
        /\ probe.params[2] = "naf" =>
               StepResult(probe.distance, probe.params[3], probe.params[4], probe.result)
        /\ (probe.pkg = "msnmodel" /\ OnEmittedAxonLine /\ probe.params[4] \notin {NaN, -1}) =>
               probe.result.ok

C16_Witness ==
    /\ probe.fn = "get_channel_density" /\ probe.pkg = "msnmodel"
    /\ probe.params = <<"axon", "km", <<0>>, 2>> /\ OnEmittedAxonLine
    /\ probe.distance = 100
    /\ probe.result = Ok(20000)

(* C17: step_fun(distance, args, gbar) returns args[0]*gbar exactly when
   args[2] < distance < args[3] and args[1]*gbar otherwise; at distance =
   args[2] and at distance = args[3] it returns args[1]*gbar (with the axon
   naf arguments [1, 1.1, 30, 500], distances 30 and 500 give 1.1*gbar). *)
C17_StepProfile ==
    (probe.fn = "step_fun" /\ probe.result # NotCalled /\ Len(probe.args) = 4 /\ probe.gbar # NaN) =>
        LET args == probe.args IN
        /\ probe.result.ok
        /\ (args[3] < probe.distance /\ probe.distance < args[4]) =>
               probe.result.value = args[1] * probe.gbar * 1000
        /\ ~(args[3] < probe.distance /\ probe.distance < args[4]) =>
               probe.result.value = args[2] * probe.gbar * 1000
        /\ probe.distance \in {args[3], args[4]} =>
               probe.result.value = args[2] * probe.gbar * 1000
        /\ (args = <<10, 11, 30, 500>> /\ probe.distance \in {30, 500}) =>
               probe.result.value = 11 * probe.gbar * 1000

C17_Witness ==
    /\ probe.fn = "step_fun" /\ probe.args = <<10, 11, 30, 500>>
    /\ probe.distance = 500 /\ probe.gbar = 2
    /\ probe.result = Ok(22000)

-----------------------------------------------------------------------------
(* Construction *)

\* _setup_density has run (it follows _setup_biophysics, which cannot fail)
DensityRan(b) == b.passive # {} /\ b.pc # "biophysics"

\* the density computed for the n-th visit of _setup_density
Computed(b, n) ==
    LET plan == DensityPlan(b.density_params, b.sections) IN
    ProfileDensity("msnmodel", SegDistance(plan[n][2]), plan[n][1])

(* C14: whenever the density get_channel_density computes is negative the
   call raises and returns no value, and construction stops there; every
   gbar_/pbar_ value _setup_density has written is >= 0 and is the computed
   value itself, never 0 in its place. *)
C14_NegativeDensityFails ==
    DensityRan(build) =>
        LET plan == DensityPlan(build.density_params, build.sections) IN
        /\ Len(build.writes) <= Len(plan)
        /\ \A n \in DOMAIN build.writes :
              /\ Computed(build, n).ok
              /\ build.writes[n] = <<plan[n][2], DensityAttr(plan[n][1][2]), Computed(build, n).value>>
              /\ build.writes[n][3] >= 0
        /\ \A n \in DOMAIN plan :
              (Computed(build, n).ok /\ Computed(build, n).value # NaN /\ Computed(build, n).value < 0) =>
                  /\ get_channel_density("msnmodel", SegDistance(plan[n][2]), plan[n][1]) = Raise("AssertionError")
                  /\ build.pc = "failed" /\ ~build.returned
                  /\ Len(build.writes) < n

C14_Witness ==
    /\ build.pc = "failed" /\ build.error = "AssertionError"
    /\ build.table = "neg_soma_kaf" /\ build.fitted = "fit"
    /\ Len(build.writes) > 0
    /\ Computed(build, Len(build.writes) + 1).value < 0
    /\ Computed(build, Len(build.writes) + 1).value # NaN

(* C18: a cell index outside 0..70 for dmsn or 0..33 for imsn makes the
   constructor fail at the parameter lookup: it raises KeyError before any
   section exists, any mechanism is inserted or any segment value written,
   and no cell is returned. *)
C18_IndexOutOfRange ==
    (build.pc # "start" /\
     ((cellType = "dmsn" /\ build.cell_index \notin 0..70) \/
      (cellType = "imsn" /\ build.cell_index \notin 0..33))) =>
        /\ build.pc = "failed" /\ build.error = "KeyError"
        /\ build.sections = <<>> /\ ~build.discretised
        /\ build.inserted = {} /\ build.passive = {}
        /\ build.writes = <<>> /\ ~build.bg_noise
        /\ ~build.returned

C18_Witness ==
    /\ cellType = "imsn" /\ build.cell_index = 34
    /\ build.fitted = "fit" /\ build.table = "full" /\ build.morphology = "ok"
    /\ build.pc = "failed" /\ build.error = "KeyError"

\* the parameter lookup has run and found the cell's density_params complete
LookedUp(b) ==
    /\ b.pc # "start"
    /\ b.cell_index \in CellIndices(cellType)
    /\ b.fitted # "no_sk"

(* C19 as stated: get_density_params fails when the conductance table has
   no row for a line's mechanism and compartment; no line it returns has a
   missing peak. *)
C19_MissingConductanceFails ==
    build.pc # "start" =>
        /\ \A i \in DOMAIN build.density_params : build.density_params[i][4] # NaN
        /\ (LookedUp(build) /\ build.table \in {"no_dend_kdr", "no_dend_can"}) =>
               build.density_params = <<>> /\ build.pc = "failed"

(* C19 (amended): get_density_params does not fail when the conductance
   table has no row for a line's mechanism and compartment: it returns all
   27 lines, the peak of each being the value of the first matching row for
   the cell type (or for all types) and NaN when there is none.  The
   missing peak surfaces later, as the failed assertion of
   get_channel_density, for the lines whose profile uses the peak; the
   dendritic can, cav32 and cav33 profiles do not use it, so a missing peak
   there passes unnoticed. *)
C19_MissingConductanceIsNaN ==
    LookedUp(build) =>
        LET dp == build.density_params
            conductances == get_gbar(TableIn(build.table), cellType)
        IN
        /\ Len(dp) = Len(DendMechs) + Len(SomaMechs) + 2 + Len(AxonParams)
        /\ \A i \in DOMAIN dp :
              LET rows == Rows(conductances, dp[i][2], dp[i][1]) IN
              dp[i][4] = (IF Len(rows) = 0 THEN NaN ELSE rows[1][4])
        /\ build.error # "MissingConductance"
        /\ (DensityRan(build) /\ build.table = "no_dend_kdr" /\ build.fitted = "fit") =>
               build.pc = "failed" /\ build.error = "AssertionError"
        /\ (DensityRan(build) /\ build.table = "no_dend_can" /\ build.fitted = "fit") =>
               build.pc # "failed"

C19_Witness ==
    /\ build.pc = "ready" /\ build.table = "no_dend_can"
    /\ \E i \in DOMAIN build.density_params :
          /\ build.density_params[i][1] = "dend" /\ build.density_params[i][2] = "can"
          /\ build.density_params[i][4] = NaN
    /\ \E n \in DOMAIN build.writes : build.writes[n][2] = <<"pbar_", "can">>

\* the exceptions the step that runs at a value of build.pc can raise
ErrorsAt(pc) ==
    CASE pc = "start" -> {"KeyError", "IndexError"}
      [] pc = "params" -> {"AssertionError"}
      [] pc = "morphology" -> {"ValueError"}
      [] pc = "biophysics" -> {"AssertionError", "ValueError", "IndexError", "UnboundLocalError"}
      [] OTHER -> {}

\* build.pc in the order of the constructor
ConstructionOrder == <<"start", "params", "morphology", "mechanisms", "biophysics", "density", "ready">>

(* C20: the constructor runs parameter lookup, _setup_morphology,
   _setup_mechanisms, _setup_biophysics, _setup_density in this order and
   then creates the background-noise list: every step of a construction
   moves to the next stage or fails; density values are written only when
   every section has its mechanisms and its passive properties; the
   background-noise list is created only from the stage where density is
   applied; a cell is returned exactly when the last stage is reached, and
   a failure of any step ends the construction with no cell returned. *)
C20_ConstructionOrder ==
    [][build' # build =>
          /\ \/ \E i \in 1..(Len(ConstructionOrder) - 1) :
                   build.pc = ConstructionOrder[i] /\ build'.pc = ConstructionOrder[i + 1]
             \/ /\ build.pc \notin {"ready", "failed"}
                /\ build'.pc = "failed"
                /\ build'.error \in ErrorsAt(build.pc)
          /\ build'.writes # build.writes =>
                /\ build.pc = "biophysics"
                /\ \A sec \in Range(build.sections) :
                      /\ \A m \in ChannelsOf(sec) \cup {"pas"} : <<sec, m>> \in build.inserted
                      /\ sec \in build.passive
          /\ build'.bg_noise => build.pc = "density" /\ build'.pc = "ready"
          /\ build'.returned <=> build'.pc = "ready"
          /\ build'.pc = "ready" => build'.bg_noise /\ Len(build'.writes) = Len(DensityPlan(build.density_params, build.sections))
      ]_vars

C20_Witness ==
    /\ build.pc = "ready" /\ build.returned /\ build.bg_noise
    /\ build.table = "full"
    /\ Len(build.writes) = Len(DensityPlan(build.density_params, build.sections))
    /\ Len(build.writes) >= 27
    /\ build.passive = Range(all)

-----------------------------------------------------------------------------
(* Spatial discretisation of one section on its own *)

\* section lengths in tenths of a um, up to 125 um
LengthArgs == 1..1250

\* the sections _setup_morphology discretises, by name and length
NsegCalls ==
    {[fn |-> "nseg", name |-> name, L10 |-> L10, result |-> NotCalled] :
        name \in {"soma", "axon", "dend"}, L10 \in LengthArgs}

InitDiscretise ==
    /\ cellType = "dmsn"
    /\ mech = [mi \in MechInsts |-> Unmodulated]
    /\ syns = <<>>
    /\ bg_noise = <<>>
    /\ da = NoModulator
    /\ ach = NoModulator
    /\ lastOp = [op |-> "MSN", failed |-> FALSE, arg |-> <<>>, again |-> FALSE]
    /\ nAdds = 0
    /\ package = "msnmodel"
    /\ build = Built
    /\ probe \in NsegCalls

\* one pass of the loop of cell.py 281-285
Discretise ==
    /\ probe.fn = "nseg" /\ probe.result = NotCalled
    /\ probe' = [probe EXCEPT !.result = Ok(nseg_of(probe.name, probe.L10))]
    /\ UNCHANGED <<package, build, cellType, mech, syns, bg_noise, da, ach, lastOp, nAdds>>

SpecDiscretise == InitDiscretise /\ [][Discretise]_vars

(* C23: an axon section gets exactly 2 segments whatever its length; any
   other section of length L gets 2 * floor(L / 40) + 1 segments, which is
   odd, at least 1, and never smaller than the count of a shorter section. *)
C23_Discretisation ==
    (probe.fn = "nseg" /\ probe.result # NotCalled) =>
        /\ probe.result.ok
        /\ LET n == probe.result.value IN
           /\ probe.name = "axon" => n = 2
           /\ probe.name # "axon" =>
                 /\ \E k \in 0..(probe.L10 \div 400 + 1) :
                       /\ 400 * k <= probe.L10 /\ probe.L10 < 400 * (k + 1)
                       /\ n = 2 * k + 1
                 /\ n % 2 = 1 /\ n >= 1
                 /\ \A shorter \in LengthArgs :
                       shorter <= probe.L10 => nseg_of(probe.name, shorter) <= n

C23_Witness ==
    /\ probe.fn = "nseg" /\ probe.name = "dend" /\ probe.L10 = 400
    /\ probe.result = Ok(3)

\* the somas among the sections the morphology file of a construction holds
SomasOf(b) == SelectSeq(SectionsIn(b.morphology), LAMBDA sec : SecName(sec) = "soma")

\* _setup_morphology has been entered: the sections are instantiated
MorphologyRan(b) == b.sections # <<>>

(* C21: a morphology with no soma or with more than one soma makes the
   construction fail with the assertion of _setup_morphology, before any
   section is discretised and before any mechanism is inserted, and no cell
   is returned; a morphology with exactly one soma passes this step and is
   discretised. *)
C21_ExactlyOneSoma ==
    MorphologyRan(build) =>
        /\ Len(SomasOf(build)) # 1 =>
              /\ build.pc = "failed" /\ build.error = "AssertionError"
              /\ ~build.discretised
              /\ build.inserted = {} /\ build.passive = {} /\ build.writes = <<>>
              /\ ~build.returned
        /\ Len(SomasOf(build)) = 1 => build.discretised

C21_Witness ==
    /\ build.morphology = "no_soma" /\ Len(SomasOf(build)) = 0
    /\ MorphologyRan(build)
    /\ build.pc = "failed" /\ build.error = "AssertionError"
    /\ build.density_params # <<>>

\* the mechanisms a section holds in a construction
InsertedIn(b, sec) == {ins[2] : ins \in {i \in b.inserted : i[1] = sec}}

(* C22: the mechanism step classifies every section by its name, soma, else
   axon, else dendrite, and gives it exactly the mechanisms of its class: 13
   for a soma (11 channels and the 2 calcium dynamics), 3 for an axon, 15
   for a dendrite (13 and 2).  A section of none of the three classes makes
   the construction fail with ValueError; it is not skipped and receives
   nothing. *)
C22_MechanismsByClass ==
    [][(build.pc = "morphology" /\ build' # build) =>
          LET secs == build.sections
              classes == {"soma", "axon", "dend"}
          IN
          /\ build.inserted = {}
          /\ \A sec \in Range(secs) :
                LET got == InsertedIn(build', sec) IN
                /\ SecName(sec) \notin classes => got = {}
                /\ got # {} =>
                      /\ SecName(sec) = "soma" =>
                            got = somatic_channels /\ Cardinality(got) = 11 + 2
                      /\ SecName(sec) = "axon" =>
                            got = axonal_channels /\ Cardinality(got) = 3
                      /\ SecName(sec) = "dend" =>
                            got = dendritic_channels /\ Cardinality(got) = 13 + 2
          /\ IF \A sec \in Range(secs) : SecName(sec) \in classes
             THEN /\ build'.pc = "mechanisms"
                  /\ \A sec \in Range(secs) : InsertedIn(build', sec) # {}
             ELSE /\ build'.pc = "failed" /\ build'.error = "ValueError"
                  /\ ~build'.returned
      ]_vars

C22_Witness ==
    /\ build.morphology = "apic"
    /\ build.pc = "failed" /\ build.error = "ValueError"
    /\ InsertedIn(build, soma) = somatic_channels
    /\ InsertedIn(build, <<"apic", 0>>) = {}

\* the number of shape arguments get_channel_density unpacks for a line
\* (1: it reads args[0] only)
UnpackedArity(compartment, mechanism) ==
    IF compartment = "dend" /\ mechanism \in {"naf", "kaf", "can"} THEN 4
    ELSE IF compartment = "axon" /\ mechanism = "naf" THEN 4
    ELSE IF compartment = "dend" /\ mechanism \in {"kas", "cav32", "cav33"} THEN 3
    ELSE 1

(* C28: every line get_density_params returns can be resolved by
   get_channel_density: its shape arguments are as many as the profile of
   its compartment and mechanism unpacks (4, 3, or at least 1), also for a
   dendritic mechanism that the parameter set does not hold and that takes
   the default [0]; resolving it raises no unpacking or index error. *)
C28_EntriesResolve ==
    \A i \in DOMAIN build.density_params :
        LET line == build.density_params[i]
            need == UnpackedArity(line[1], line[2])
            r == ProfileDensity("msnmodel", 0, line)
        IN
        /\ IF need = 1 THEN Len(line[3]) >= 1 ELSE Len(line[3]) = need
        /\ ~r.ok => r.error \notin {"ValueError", "IndexError"}

-----------------------------------------------------------------------------
(* Modulators: scope errors, empty targets, disabled classes *)

(* C29: Acetylcholine.reset(what) with what outside 'all', 'intrinsic',
   'gaba', 'glut' raises and changes nothing: no field of a mechanism or of
   a synapse is written and no play vector is removed; with what in the
   set the call does not raise. *)
C29_InvalidScopeRejected ==
    [][lastOp'.op = "Acetylcholine.reset" =>
          IF lastOp'.arg \in {"all", "intrinsic", "gaba", "glut"}
          THEN ~lastOp'.failed
          ELSE /\ lastOp'.failed
               /\ mech' = mech /\ syns' = syns
               /\ ach' = ach /\ bg_noise' = bg_noise
      ]_vars

C29_Witness ==
    /\ lastOp.op = "Acetylcholine.reset" /\ lastOp.failed /\ lastOp.arg = "synaptic"
    /\ ach.made /\ ach.play # {}
    /\ \E mi \in MechInsts : mech[mi].p_lev2 # {} /\ mech[mi].damod = 1
    /\ \E i \in DOMAIN syns : syns[i].mod.p_lev2 # {}

(* C24: building a Dopamine or an Acetylcholine never raises.  On a cell
   without background synapses it leaves the synapses and the tracked noise
   as they are (none), and a mechanism whose name is not in the drawn set is
   passed over: its fields are unchanged (kaf, which Acetylcholine shifts,
   apart). *)
C24_NoTargetsNoOp ==
    [][lastOp'.op \in {"Dopamine", "Acetylcholine"} =>
          LET self == IF lastOp'.op = "Dopamine" THEN da' ELSE ach' IN
          /\ ~lastOp'.failed
          /\ self.made
          /\ syns = <<>> => (syns' = <<>> /\ bg_noise' = <<>>)
          /\ DOMAIN mech' = MechInsts
          /\ \A mi \in MechInsts :
                (/\ mi[2] \notin DOMAIN self.params.intrinsic
                 /\ ~(lastOp'.op = "Acetylcholine" /\ mi[2] = "kaf")) =>
                    mech'[mi] = mech[mi]
      ]_vars

C24_Witness ==
    /\ lastOp.op = "Acetylcholine" /\ ~lastOp.failed
    /\ syns = <<>> /\ bg_noise = <<>>
    /\ ach.made /\ ach.args.gaba /\ ach.args.glut /\ ach.args.intrinsic
    /\ axon[1] \in ach.sections
    /\ \E mi \in MechInsts : mi[1][1] = axon[1] /\ mi[2] = "kas" /\ mech[mi] = Unmodulated
    /\ \E mi \in MechInsts : mi[1][1] = axon[1] /\ mi[2] = "naf" /\ mech[mi].damod = 1

\* the enabled flag, the maximal factor and the level a modulator uses
ModFields(op, m) ==
    IF op = "Dopamine.reset" THEN <<m.damod, m.maxMod, m.level>>
    ELSE <<m.damod, m.max2, m.lev2>>

(* C26: Dopamine.reset() and Acetylcholine.reset('all') leave the classes
   the modulator was built without as they are: built with
   intrinsic_modulation false, the enabled flag, maximal factor and level
   of every mechanism are the same after the reset as before it; built with
   gaba_modulation (glut_modulation) false, those of every GABA (AMPA and
   NMDA) synapse are. *)
C26_ResetRespectsFlags ==
    [][(\/ lastOp'.op = "Dopamine.reset"
        \/ (lastOp'.op = "Acetylcholine.reset" /\ lastOp'.arg = "all")) =>
          LET op == lastOp'.op
              self == IF op = "Dopamine.reset" THEN da ELSE ach
          IN
          /\ ~self.args.intrinsic =>
                \A mi \in MechInsts : ModFields(op, mech'[mi]) = ModFields(op, mech[mi])
          /\ \A i \in DOMAIN syns :
                ~ClassEnabled(self, syns[i].stype) =>
                    ModFields(op, syns'[i].mod) = ModFields(op, syns[i].mod)
      ]_vars

-----------------------------------------------------------------------------
(* Background noise and modulators together *)

\* Dopamine(cell, modulate) with every class enabled
ApplyDABoth ==
    \E modulate \in {"all", Omitted} :
        Dopamine(modulate, TRUE, TRUE, TRUE, {}, DrawPoints - 1)

\* Acetylcholine(cell) with its default arguments
ApplyAChBoth == Acetylcholine(Omitted, TRUE, TRUE, TRUE, -10, {}, DrawPoints - 1)

\* cell.add_bg_noise() with its default arguments, at any time
LateNoise ==
    \E held \in BOOLEAN :
        /\ (bg_noise = <<>> => held)
        /\ add_bg_noise(FALSE, None, None, None, <<>>, held)

\* Acetylcholine.reset of everything or of one class
ResetAChBoth == \E what \in {"all", "gaba"} : ACh_reset(what)

\* a cell that gets background noise, Dopamine and Acetylcholine in any order
NextBoth ==
    \/ LateNoise
    \/ ApplyDABoth
    \/ ResetDA
    \/ ApplyAChBoth
    \/ ResetAChBoth

SpecBoth == Init /\ [][NextBoth]_vars

(* C30: a call of add_bg_noise that raises part-way (a non-empty delays
   list shorter than the target sections) leaves the cell as it was before
   the call: the tracked list is the same and every connection has the
   weight it had, with no synapse added. *)
C30_AddNoiseAllOrNothing ==
    [][(lastOp'.op = "add_bg_noise" /\ lastOp'.failed) =>
          /\ bg_noise' = bg_noise
          /\ Len(syns') = Len(syns)
          /\ \A i \in DOMAIN syns : syns'[i].weight = syns[i].weight
      ]_vars

(* C25: with Dopamine and Acetylcholine both applied to a cell, a reset of
   one leaves the other's modulation as it is: Acetylcholine.reset (any
   scope) changes neither damod, maxMod nor level of any mechanism or
   synapse, and Dopamine.reset changes neither damod, max2 nor lev2. *)
C25_ResetsIndependent ==
    [][(da.made /\ ach.made) =>
          /\ lastOp'.op = "Acetylcholine.reset" =>
                /\ \A mi \in MechInsts :
                      ModFields("Dopamine.reset", mech'[mi]) = ModFields("Dopamine.reset", mech[mi])
                /\ \A i \in DOMAIN syns :
                      ModFields("Dopamine.reset", syns'[i].mod) = ModFields("Dopamine.reset", syns[i].mod)
          /\ lastOp'.op = "Dopamine.reset" =>
                /\ \A mi \in MechInsts :
                      ModFields("Acetylcholine.reset", mech'[mi]) = ModFields("Acetylcholine.reset", mech[mi])
                /\ \A i \in DOMAIN syns :
                      ModFields("Acetylcholine.reset", syns'[i].mod) = ModFields("Acetylcholine.reset", syns[i].mod)
      ]_vars

\* the synapses a modulator finds on its sections
InScope(self, ss) == {i \in DOMAIN ss : ss[i].live /\ ss[i].seg[1] \in self.sections}

(* C27: a modulator writes only onto the synapses that exist on its
   sections when it is applied; the synapses add_bg_noise creates afterwards
   start unmodulated (damod 0, factors 1, levels 0, no trajectory) and
   add_bg_noise writes no modulation field; a later reset writes onto the
   synapses that exist on the modulator's sections at the time of the
   reset, those created after the modulator was applied included, and onto
   no other. *)
C27_NoiseAfterModulation ==
    [][/\ lastOp'.op \in {"Dopamine", "Acetylcholine"} =>
             LET self == IF lastOp'.op = "Dopamine" THEN da' ELSE ach' IN
             /\ Len(syns') = Len(syns)
             /\ self.seen = Len(syns)
             /\ \A i \in DOMAIN syns : i \notin InScope(self, syns) => syns'[i] = syns[i]
       /\ lastOp'.op = "add_bg_noise" =>
             /\ Len(syns') > Len(syns)
             /\ \A i \in (Len(syns) + 1)..Len(syns') :
                   syns'[i].live /\ syns'[i].mod = Unmodulated
             /\ \A i \in DOMAIN syns :
                   syns'[i].mod = syns[i].mod \/ ~syns'[i].live
       /\ lastOp'.op \in {"Dopamine.reset", "Acetylcholine.reset"} =>
             LET self == IF lastOp'.op = "Dopamine.reset" THEN da ELSE ach IN
             /\ Len(syns') = Len(syns)
             /\ \A i \in DOMAIN syns : i \notin InScope(self, syns) => syns'[i] = syns[i]
             /\ lastOp'.op = "Dopamine.reset" =>
                   \A i \in InScope(self, syns) :
                       /\ syns'[i].mod.maxMod = Factor(self, syns[i].stype)
                       /\ syns'[i].mod.level = 0
      ]_vars

C27_Witness ==
    /\ lastOp.op = "Dopamine.reset"
    /\ da.made /\ da.seen > 0
    /\ \E i \in DOMAIN syns :
          /\ i > da.seen /\ syns[i].live /\ syns[i].stype = "gaba"
          /\ syns[i].mod.maxMod = Factor(da, "gaba") /\ syns[i].mod.maxMod # 1000
    /\ \E j \in 1..da.seen : ~syns[j].live /\ syns[j].mod = Unmodulated

====
